---------------------------- MODULE Spec2Model ----------------------------
(***************************************************************************)
(* Worison-AI backend: the HTTP layer (app.py), the persistence layer      *)
(* (database.py, chat_store.py), the extracted-text cache (app.py) and     *)
(* the model gateway (model_wrapper.py) as state machines.                 *)
(*                                                                         *)
(* A text is a sequence of one-character strings, so that strip(), [:60],  *)
(* startswith() and concatenation are computed as Python computes them.    *)
(*                                                                         *)
(*   Spec      the /chat and /stream_chat handlers over the database, run  *)
(*             by a pool of workers, one step per database operation       *)
(*   SpecFile  /upload's storage and _get_file_text over the upload folder *)
(*             and the cache directory                                     *)
(*   SpecGen   the gateway: the four operations, _generate and the retry   *)
(*             loop around generate_content                                *)
(***************************************************************************)
EXTENDS Integers, Sequences, FiniteSets, TLC

VARIABLES
    chat_sessions,   \* table chat_sessions: set of rows
    conversations,   \* table conversations: set of rows, id AUTOINCREMENT
    conv_seq,        \* sqlite_sequence of conversations: the last id given
    uuid_count,      \* how many uuid4 values have been drawn
    wk,              \* per worker: the request it handles and its locals
    started,         \* requests started so far
    available,       \* ModelWrapper.available, fixed at construction
    savedLog,        \* ghost: every save_message call, in call order
    uploads,         \* UPLOAD_FOLDER: the stored files
    cache,           \* FILES_DIR: stored filename -> content of its .txt
    file_map,        \* file_map.json: original name -> unique name
    ft,              \* SpecFile: the _get_file_text calls made so far
    gw,              \* SpecGen: the gateway operation in progress
    fn               \* a function of the program applied to an argument

vars ==
    << chat_sessions, conversations, conv_seq, uuid_count, wk, started,
       available, savedLog, uploads, cache, file_map, ft, gw, fn >>

dbVars ==
    << chat_sessions, conversations, conv_seq, uuid_count, savedLog >>

fsVars ==
    << uploads, cache, file_map, ft >>

httpVars ==
    << wk, started >>

-----------------------------------------------------------------------------
(* Bounds of the model *)

MaxReq == 2

MsgExtra == 2

MaxCalls == 2

MaxOps == 2

MaxText == 7

MaxChunk == 5

MaxRaw == 3

MaxTopK == 2

MaxBlock == 2

MaxStream == 125

MaxPings == 2

MaxTurns == 2

(* Program constants *)

TitleLen == 60

MaxAttempts == 3

HistoryWindow == 8

-----------------------------------------------------------------------------
(* Literal strings of the program *)

ErrorMark ==
    <<"(", "e", "r", "r", "o", "r", ")">>

FallbackMark ==
    <<"(", "f", "a", "l", "l", "b", "a", "c", "k", ")">>

InfoMark ==
    <<"(", "i", "n", "f", "o", ")">>

LoginRequired ==
    <<"L", "o", "g", "i", "n", " ", "r", "e", "q", "u", "i", "r", "e", "d">>

\* The answer to a blank message without its "(error)" mark
NoInputBare ==
    <<"N", "o", " ", "i", "n", "p", "u", "t", " ", "p", "r", "o", "v", "i", "d", "e", "d", ".">>

NoInputProvided ==
    <<"(", "e", "r", "r", "o", "r", ")", " ", "N", "o", " ", "i", "n", "p", "u", "t", " ", "p", "r", "o", "v", "i", "d", "e", "d", ".">>

ModelNotAvailable ==
    <<"(", "f", "a", "l", "l", "b", "a", "c", "k", ")", " ", "M", "o", "d", "e", "l", " ", "n", "o", "t", " ", "a", "v", "a", "i", "l", "a", "b", "l", "e", ".">>

ModelNotConfigured ==
    <<"(", "f", "a", "l", "l", "b", "a", "c", "k", ")", " ", "M", "o", "d", "e", "l", " ", "n", "o", "t", " ", "c", "o", "n", "f", "i", "g", "u", "r", "e", "d", ".">>

EmptyModelResponse ==
    <<"(", "i", "n", "f", "o", ")", " ", "E", "m", "p", "t", "y", " ", "m", "o", "d", "e", "l", " ", "r", "e", "s", "p", "o", "n", "s", "e", ".">>

NoTextProvided ==
    <<"(", "i", "n", "f", "o", ")", " ", "N", "o", " ", "t", "e", "x", "t", " ", "p", "r", "o", "v", "i", "d", "e", "d", ".">>

NoTextToExplain ==
    <<"(", "i", "n", "f", "o", ")", " ", "N", "o", " ", "t", "e", "x", "t", " ", "t", "o", " ", "e", "x", "p", "l", "a", "i", "n", ".">>

FileHead ==
    <<"\n", "\n", "-", "-", "-", " ", "F", "i", "l", "e", ":", " ">>

FileMid ==
    <<" ", "-", "-", "-", "\n">>

FileTail ==
    <<"\n", "-", "-", "-", "\n">>

ImageNoText ==
    <<"(", "e", "r", "r", "o", "r", ")", " ", "C", "o", "u", "l", "d", " ", "n", "o", "t", " ", "e", "x", "t", "r", "a", "c", "t", " ", "t", "e", "x", "t", " ", "f", "r", "o", "m", " ", "i", "m", "a", "g", "e", ".">>

ImageOcrFailed ==
    <<"(", "e", "r", "r", "o", "r", ")", " ", "I", "m", "a", "g", "e", " ", "O", "C", "R", " ", "f", "a", "i", "l", "e", "d", ".">>

PdfNoText ==
    <<"(", "e", "r", "r", "o", "r", ")", " ", "C", "o", "u", "l", "d", " ", "n", "o", "t", " ", "e", "x", "t", "r", "a", "c", "t", " ", "t", "e", "x", "t", " ", "f", "r", "o", "m", " ", "P", "D", "F", ".">>

\* str(e) of the RetryError tenacity raises once the attempts are used up
RetryErrorText ==
    <<"R", "e", "t", "r", "y", "E", "r", "r", "o", "r", "[", "<", "F", ">", "]">>

\* str(e) of the sqlite3 error a failed INSERT raises
DbErrorText ==
    <<"d", "a", "t", "a", "b", "a", "s", "e", " ", "i", "s", " ", "l", "o", "c", "k", "e", "d">>

-----------------------------------------------------------------------------
(* Python string operations *)

Whitespace ==
    {" ", "\n", "\t", "\r"}

IsBlank(s) ==
    \A i \in 1..Len(s) : s[i] \in Whitespace

\* str.strip(): drop leading and trailing whitespace
Strip(s) ==
    IF IsBlank(s) THEN <<>>
    ELSE LET first == CHOOSE i \in 1..Len(s) :
                          /\ s[i] \notin Whitespace
                          /\ \A j \in 1..(i - 1) : s[j] \in Whitespace
             last == CHOOSE i \in 1..Len(s) :
                          /\ s[i] \notin Whitespace
                          /\ \A j \in (i + 1)..Len(s) : s[j] \in Whitespace
         IN  SubSeq(s, first, last)

\* s[:n]
Take(s, n) ==
    SubSeq(s, 1, IF Len(s) < n THEN Len(s) ELSE n)

\* s.startswith(p)
StartsWith(s, p) ==
    /\ Len(s) >= Len(p)
    /\ SubSeq(s, 1, Len(p)) = p

\* f"(error) {e}"
ErrorTextBare(e) ==
    e

ErrorText(e) ==
    ErrorMark \o <<" ">> \o e


-----------------------------------------------------------------------------
(* Model gateway: model_wrapper.py *)

\* A response of generate_content: None, an SDK object (.text, .candidates
\* and its str()), or a dict
NoResp ==
    [kind |-> "none", text |-> <<>>, cands |-> <<>>, repr |-> <<>>]

ObjResp(text, cands, repr) ==
    [kind |-> "object", text |-> text, cands |-> cands, repr |-> repr]

DictResp(text) ==
    [kind |-> "dict", text |-> text, cands |-> <<>>, repr |-> <<"{", "}">>]

\* " ".join(texts)
RECURSIVE JoinSpace(_)
JoinSpace(texts) ==
    IF texts = <<>> THEN <<>>
    ELSE IF Len(texts) = 1 THEN texts[1]
    ELSE texts[1] \o <<" ">> \o JoinSpace(Tail(texts))

\* [p.text for p in parts if p.text]
NonEmptyParts(parts) ==
    SelectSeq(parts, LAMBDA t : t # <<>>)

\* _extract_text: the first of resp.text, the first candidate with text
\* parts, the dict's entry, str(resp); <<>> stands for None and for ""
ExtractTextSloppy(resp) ==
    IF resp.kind = "none" THEN <<>> ELSE resp.text

ExtractText(resp) ==
    IF resp.kind = "none" THEN <<>>
    ELSE IF resp.kind = "object" /\ resp.text # <<>> THEN Strip(resp.text)
    ELSE IF \E i \in 1..Len(resp.cands) : NonEmptyParts(resp.cands[i]) # <<>>
         THEN LET i == CHOOSE k \in 1..Len(resp.cands) :
                           /\ NonEmptyParts(resp.cands[k]) # <<>>
                           /\ \A j \in 1..(k - 1) : NonEmptyParts(resp.cands[j]) = <<>>
              IN  Strip(JoinSpace(NonEmptyParts(resp.cands[i])))
    ELSE IF resp.kind = "dict" /\ resp.text # <<>> THEN Strip(resp.text)
    ELSE Strip(resp.repr)

\* One attempt of generate_content: it raises or it returns resp
Raises ==
    [raises |-> TRUE, resp |-> NoResp]

Returns(resp) ==
    [raises |-> FALSE, resp |-> resp]

\* stop_after_attempt(3)
StopAfterAttemptLate(attempt_number) ==
    attempt_number > MaxAttempts

StopAfterAttempt(attempt_number) ==
    attempt_number >= MaxAttempts

\* retry_if_exception_type(Exception): retry exactly when the attempt raised
RetryAlways(outcome) ==
    TRUE

ShouldRetry(outcome) ==
    outcome.raises

\* _call_model under @retry: outs[n] is what attempt n does.  Gives what
\* the decorated call does (a resp, or RetryError raised) and the number of
\* generate_content calls made.
RECURSIVE CallModelFrom(_, _)
CallModelFrom(outs, n) ==
    IF ~ShouldRetry(outs[n])
    THEN [raised |-> FALSE, resp |-> outs[n].resp, exc |-> <<>>, calls |-> n]
    ELSE IF StopAfterAttempt(n)
    THEN [raised |-> TRUE, resp |-> NoResp, exc |-> RetryErrorText, calls |-> n]
    ELSE CallModelFrom(outs, n + 1)

CallModel(outs) ==
    CallModelFrom(outs, 1)

\* _generate, from what the decorated _call_model did
GenerateReturn(r) ==
    IF r.raised THEN ErrorText(r.exc)
    ELSE IF ExtractText(r.resp) = <<>> THEN EmptyModelResponse
    ELSE ExtractText(r.resp)

\* _generate
GenerateNoDefault(model_set, outs) ==
    IF ~model_set THEN ModelNotConfigured
    ELSE LET r == CallModel(outs)
         IN  IF r.raised THEN ErrorText(r.exc) ELSE ExtractText(r.resp)

Generate(model_set, outs) ==
    IF ~model_set THEN ModelNotConfigured
    ELSE GenerateReturn(CallModel(outs))

\* ModelWrapper.chat_response: its result for the attempts outs
chat_response(outs) ==
    IF ~available THEN ModelNotAvailable ELSE Generate(TRUE, outs)

(* What the hosted model may do in the models below *)

OkText ==
    <<"O", "k", ".">>

OkResp ==
    ObjResp(<<" ">> \o OkText \o <<"\n">>, <<>>, <<"<", "r", ">">>)

Responses ==
    { NoResp,
      OkResp,
      ObjResp(<<" ", "\n">>, <<>>, <<"<", "r", ">">>),
      ObjResp(<<>>, << <<>>, << <<>>, <<"a">>, <<"b">> >> >>, <<"<", "r", ">">>),
      ObjResp(<<>>, <<>>, <<"<", "r", ">">>),
      ObjResp(<<>>, <<>>, <<>>),
      DictResp(<<"d">>),
      DictResp(<<>>),
      DictResp(<<"[", "\"", "k", "\"", ",", " ", "\"", "k", " ", "\"", "]">>),
      DictResp(<<"k", ",", " ", "k", "\n", "[", "j", "]">>) }

\* The attempt sequences the HTTP model draws from: an answer at once, an
\* empty answer, an answer on the last attempt, and all attempts failing
ChatAttempts ==
    { <<Returns(OkResp)>>,
      <<Returns(NoResp)>>,
      <<Raises, Raises, Returns(OkResp)>>,
      <<Raises, Raises, Raises>> }

-----------------------------------------------------------------------------
(* Persistence: database.py, chat_store.py *)

Users ==
    {"u1", "u2"}

\* session.get("user_id") of a client that is not logged in
NoUser ==
    "anonymous"

\* data.get("session_id") when the request names no session; the NULL of
\* conversations.session_id
NoSession ==
    "none"

\* A session_id a client made up: it is the id of no chat_sessions row
UnknownSession ==
    "made-up"

\* The session a database of an earlier run already holds
LegacySession ==
    "s0"

\* str(uuid.uuid4()): the n-th value drawn; all are distinct
UuidPool ==
    <<"s1", "s2", "s3", "s4", "s5", "s6">>

NewUuid ==
    UuidPool[uuid_count + 1]

\* ORDER BY id
RECURSIVE OrderByIdDesc(_)
OrderByIdDesc(rows) ==
    IF rows = {} THEN <<>>
    ELSE LET r == CHOOSE x \in rows : \A y \in rows : x.id >= y.id
         IN  <<r>> \o OrderByIdDesc(rows \ {r})

RECURSIVE OrderById(_)
OrderById(rows) ==
    IF rows = {} THEN <<>>
    ELSE LET r == CHOOSE x \in rows : \A y \in rows : x.id <= y.id
         IN  <<r>> \o OrderById(rows \ {r})

\* [{"role": r["role"], "content": r["content"]} for r in rows]
RoleContent(rows) ==
    [i \in 1..Len(rows) |-> [role |-> rows[i].role, content |-> rows[i].content]]

\* The SELECT without "user_id=?"
SelectSessionAnyUser(rows, user_id, session_id) ==
    RoleContent(OrderById({r \in rows :
                               /\ session_id # NoSession
                               /\ r.session_id = session_id}))

\* SELECT role, content FROM conversations WHERE user_id=? AND session_id=?
\* ORDER BY id, on the table rows.  In SQL "session_id = NULL" is true of
\* no row.
SelectSession(rows, user_id, session_id) ==
    RoleContent(OrderById({r \in rows :
                               /\ session_id # NoSession
                               /\ r.user_id = user_id
                               /\ r.session_id = session_id}))

\* load_session_messages(user_id, session_id)
load_session_messages(user_id, session_id) ==
    SelectSession(conversations, user_id, session_id)

\* The row save_message inserts: AUTOINCREMENT gives it the next id.  The
\* field req is a ghost: the request that made the call.
NewRow(user_id, role, content, session_id, req) ==
    [id |-> conv_seq + 1, user_id |-> user_id, role |-> role,
     content |-> content, session_id |-> session_id, req |-> req]

\* save_message(user_id, role, content, session_id)
save_message(user_id, role, content, session_id, req) ==
    /\ conversations' = conversations \cup
                           {NewRow(user_id, role, content, session_id, req)}
    /\ conv_seq' = conv_seq + 1
    /\ savedLog' = Append(savedLog,
                          [user_id |-> user_id, role |-> role,
                           content |-> content, session_id |-> session_id])

\* INSERT INTO chat_sessions (id, user_id, title, created_at)
InsertSession(id, user_id, title, req) ==
    chat_sessions' = chat_sessions \cup
                        {[id |-> id, user_id |-> user_id, title |-> title, req |-> req]}

-----------------------------------------------------------------------------
(* Text extraction (utils.py, ocr.py) and its cache (app.py) *)

UpperAlpha ==
    <<"A", "B", "C", "D", "E", "F", "G", "H", "I", "J", "K", "L", "M",
      "N", "O", "P", "Q", "R", "S", "T", "U", "V", "W", "X", "Y", "Z">>

LowerAlpha ==
    <<"a", "b", "c", "d", "e", "f", "g", "h", "i", "j", "k", "l", "m",
      "n", "o", "p", "q", "r", "s", "t", "u", "v", "w", "x", "y", "z">>

\* str.lower()
Lower(s) ==
    [i \in 1..Len(s) |->
        IF \E k \in 1..Len(UpperAlpha) : UpperAlpha[k] = s[i]
        THEN LowerAlpha[CHOOSE k \in 1..Len(UpperAlpha) : UpperAlpha[k] = s[i]]
        ELSE s[i]]

HasDot(s) ==
    \E i \in 1..Len(s) : s[i] = "."

\* s.rsplit(".", 1)[1], for an s that holds a dot
AfterLastDot(s) ==
    LET d == CHOOSE i \in 1..Len(s) :
                 /\ s[i] = "."
                 /\ \A j \in (i + 1)..Len(s) : s[j] # "."
    IN  SubSeq(s, d + 1, Len(s))

\* filename.rsplit(".", 1)[1].lower()
Ext(filename) ==
    Lower(AfterLastDot(filename))

ImageExts ==
    {<<"p", "n", "g">>, <<"j", "p", "g">>, <<"j", "p", "e", "g">>, <<"g", "i", "f">>}

TableExts ==
    {<<"c", "s", "v">>, <<"x", "l", "s", "x">>}

(* What the libraries do on one call: env.lib is the format's own reader  *)
(* (PyPDF2, python-docx, pandas, open), env.ocr is Tesseract; each raises  *)
(* or gives a text.  env.crash: the extractor itself raises.               *)

\* open(path, "r").read(): universal newlines, "\r\n" and "\r" read as "\n"
RECURSIVE UniversalNewlines(_)
UniversalNewlines(s) ==
    IF s = <<>> THEN <<>>
    ELSE IF s[1] = "\r"
    THEN IF Len(s) > 1 /\ s[2] = "\n"
         THEN <<"\n">> \o UniversalNewlines(SubSeq(s, 3, Len(s)))
         ELSE <<"\n">> \o UniversalNewlines(Tail(s))
    ELSE <<s[1]>> \o UniversalNewlines(Tail(s))

\* pdf_to_text_via_ocr: "" on failure
pdf_to_text_via_ocr(ocr) ==
    IF ocr.raises THEN <<>> ELSE Strip(ocr.text)

\* extract_text_from_pdf(path, use_ocr=True)
extract_text_from_pdf(env) ==
    LET direct == IF env.lib.raises THEN <<>> ELSE env.lib.text
        text   == IF Strip(direct) = <<>> THEN pdf_to_text_via_ocr(env.ocr)
                  ELSE direct
    IN  IF Strip(text) = <<>> THEN PdfNoText ELSE Strip(text)

\* image_file_to_text: "" on failure
image_file_to_text(ocr) ==
    IF ocr.raises THEN <<>> ELSE Strip(ocr.text)

\* extract_text_from_image
extract_text_from_image(env) ==
    LET text == image_file_to_text(env.ocr)
    IN  IF text = <<>> THEN ImageNoText ELSE text

\* extract_text_from_docx
extract_text_from_docx(env) ==
    IF env.lib.raises THEN <<>> ELSE Strip(env.lib.text)

\* df.head(20).to_string(index=False): pandas prints a carriage return in
\* a value or a header escaped, as the two characters \r
RECURSIVE to_string(_)
to_string(s) ==
    IF s = <<>> THEN <<>>
    ELSE IF s[1] = "\r" THEN <<"\\", "r">> \o to_string(Tail(s))
    ELSE <<s[1]>> \o to_string(Tail(s))

\* extract_text_from_csv_or_excel: env.lib.text is the table read
extract_text_from_csv_or_excel(env) ==
    IF env.lib.raises THEN <<>> ELSE to_string(env.lib.text)

\* extract_text_from_txt: env.lib.text is the decoded content of the file
extract_text_from_txt(env) ==
    IF env.lib.raises THEN <<>> ELSE Strip(UniversalNewlines(env.lib.text))

\* The dispatch of _get_file_text, with its "except Exception: text = ''"
ExtractByExt(ext, env) ==
    IF env.crash THEN <<>>
    ELSE IF ext = <<"p", "d", "f">> THEN extract_text_from_pdf(env)
    ELSE IF ext \in ImageExts THEN extract_text_from_image(env)
    ELSE IF ext = <<"d", "o", "c", "x">> THEN extract_text_from_docx(env)
    ELSE IF ext \in TableExts THEN extract_text_from_csv_or_excel(env)
    ELSE extract_text_from_txt(env)

\* "if text and not text.startswith('(error)')": the text is written to the cache
CacheableAny(text) ==
    text # <<>>

Cacheable(text) ==
    text # <<>> /\ ~StartsWith(text, ErrorMark)

\* The value _get_file_text returns for an extracted text
Returned(text) ==
    IF StartsWith(text, ErrorMark) THEN <<>> ELSE text

\* d[k] = v
Put(d, k, v) ==
    [x \in DOMAIN d \cup {k} |-> IF x = k THEN v ELSE d[x]]

\* open(cache_path, "w").write(text): "\n" written as os.linesep, "\n" here
CacheWrite(text) ==
    text

\* open(cache_path, "r").read(): universal newlines
CacheRead(content) ==
    UniversalNewlines(content)

\* _get_file_text(filename) on the upload folder ups and the cache c: the
\* text returned, the cache afterwards, whether an extractor was invoked and
\* what it gave (raw, crash), and whether the call raised (a filename
\* without a dot)
GetFileText(filename, ups, c, env) ==
    IF filename \in DOMAIN c
    THEN [text |-> CacheRead(c[filename]), cache |-> c, invoked |-> FALSE,
          raised |-> FALSE, raw |-> <<>>, crash |-> FALSE]
    ELSE IF filename \notin ups
    THEN [text |-> <<>>, cache |-> c, invoked |-> FALSE, raised |-> FALSE,
          raw |-> <<>>, crash |-> FALSE]
    ELSE IF ~HasDot(filename)
    THEN [text |-> <<>>, cache |-> c, invoked |-> FALSE, raised |-> TRUE,
          raw |-> <<>>, crash |-> FALSE]
    ELSE LET text == ExtractByExt(Ext(filename), env)
         IN  [text |-> Returned(text),
              cache |-> IF Cacheable(text)
                        THEN Put(c, filename, CacheWrite(text)) ELSE c,
              invoked |-> TRUE, raised |-> FALSE,
              raw |-> text, crash |-> env.crash]

(* /upload: allowed_file, secure_filename and the stored name (app.py) *)

AllowedExtensions ==
    { <<"p", "d", "f">>,
      <<"t", "x", "t">>,
      <<"d", "o", "c", "x">>,
      <<"c", "s", "v">>,
      <<"x", "l", "s", "x">>,
      <<"p", "n", "g">>,
      <<"j", "p", "g">>,
      <<"j", "p", "e", "g">>,
      <<"g", "i", "f">>,
      <<"p", "y">>,
      <<"j", "s">>,
      <<"h", "t", "m", "l">>,
      <<"j", "s", "o", "n">>,
      <<"m", "d">>,
      <<"w", "e", "b", "m">> }

\* An allowed_file that lets every name through
allowed_file_any(filename) ==
    TRUE

\* allowed_file(filename)
allowed_file(filename) ==
    HasDot(filename) /\ Ext(filename) \in AllowedExtensions

Digits ==
    <<"0", "1", "2", "3", "4", "5", "6", "7", "8", "9">>

\* The characters werkzeug's secure_filename keeps: [A-Za-z0-9_.-]
SafeChars ==
    {UpperAlpha[i] : i \in 1..Len(UpperAlpha)} \cup
    {LowerAlpha[i] : i \in 1..Len(LowerAlpha)} \cup
    {Digits[i] : i \in 1..Len(Digits)} \cup {"_", ".", "-"}

RECURSIVE LStripChars(_, _)
LStripChars(s, cs) ==
    IF s # <<>> /\ s[1] \in cs THEN LStripChars(Tail(s), cs) ELSE s

RECURSIVE RStripChars(_, _)
RStripChars(s, cs) ==
    IF s # <<>> /\ s[Len(s)] \in cs
    THEN RStripChars(SubSeq(s, 1, Len(s) - 1), cs) ELSE s

\* "_".join(s.split())
RECURSIVE JoinUnderscore(_)
JoinUnderscore(s) ==
    LET t == LStripChars(s, Whitespace)
    IN  IF t = <<>> THEN <<>>
        ELSE IF t[1] \in Whitespace
        THEN IF RStripChars(t, Whitespace) = <<>> THEN <<>>
             ELSE <<"_">> \o JoinUnderscore(t)
        ELSE <<t[1]>> \o
             (IF Len(t) > 1 /\ t[2] \in Whitespace /\
                 LStripChars(Tail(t), Whitespace) # <<>>
              THEN <<"_">> \o JoinUnderscore(Tail(t))
              ELSE JoinUnderscore(Tail(t)))

\* werkzeug.utils.secure_filename: path separators become spaces, the words
\* are joined by "_", unsafe characters are dropped, and dots and
\* underscores are stripped from both ends
secure_filename(filename) ==
    LET spaced == [i \in 1..Len(filename) |->
                      IF filename[i] = "/" THEN " " ELSE filename[i]]
        joined == JoinUnderscore(spaced)
        kept   == SelectSeq(joined, LAMBDA ch : ch \in SafeChars)
    IN  RStripChars(LStripChars(kept, {".", "_"}), {".", "_"})

\* uuid.uuid4().hex, one character of it
HexPool ==
    <<"1", "2", "3", "4", "5", "6">>

\* f"{uuid.uuid4().hex}_{original_name}"
UniqueName(original_name) ==
    <<HexPool[uuid_count + 1]>> \o <<"_">> \o original_name

-----------------------------------------------------------------------------
(* What the libraries may do in the models below *)

LibTexts ==
    { <<>>, <<" ", "\n">>, <<" ", "T", "x", "t", "\n">>, <<"A", "\r", "b">>,
      ErrorMark \o <<" ", "n", "o">> }

LibOutcomes ==
    {[raises |-> TRUE, text |-> <<>>]} \cup
    {[raises |-> FALSE, text |-> t] : t \in LibTexts}

OcrOutcomes ==
    {[raises |-> TRUE, text |-> <<>>]} \cup
    {[raises |-> FALSE, text |-> t] : t \in {<<>>, <<" ", "T", "x", "t", "\n">>}}

FileEnvs ==
    [lib : LibOutcomes, ocr : OcrOutcomes, crash : BOOLEAN]

QuietEnv ==
    [lib |-> [raises |-> TRUE, text |-> <<>>],
     ocr |-> [raises |-> TRUE, text |-> <<>>], crash |-> FALSE]

-----------------------------------------------------------------------------
(* HTTP layer: /chat and /stream_chat (app.py) *)

Workers ==
    {"w1", "w2"}

\* The worker of the serial model: a request is handled to completion
\* before the next is considered
MainWorker ==
    "w1"

\* A text longer than the title
LongText ==
    [i \in 1..(TitleLen + MsgExtra) |-> IF i % 2 = 1 THEN "a" ELSE "b"]

\* A message with whitespace around a text longer than the title
LongMsg ==
    <<" ">> \o LongText \o <<"\n">>

\* data.get("message"): missing (None, read as ""), blank, or a text
Messages ==
    {<<>>, <<" ">>, LongMsg}

\* The session ids a client can send: none, a made-up one, or that of any
\* stored session (its own or another user's)
ClientSessions ==
    {NoSession, UnknownSession} \cup {x.id : x \in chat_sessions}

Idle ==
    [pc |-> "idle", op |-> "", rid |-> 0, uid |-> NoUser, message |-> <<>>,
     req_sid |-> NoSession, session_id |-> NoSession, history |-> <<>>,
     user_input |-> <<>>, bot_response |-> <<>>, dberr |-> FALSE,
     status |-> 0, body_session_id |-> NoSession, body_response |-> <<>>]

\* return jsonify({...}), status: the request is answered
Respond(rec, status, session_id, response) ==
    [rec EXCEPT !.pc = "done", !.status = status,
                !.body_session_id = session_id, !.body_response = response]

\* title = user_input.strip()[:60]
TitleWhole(user_input) ==
    Strip(user_input)

Title(user_input) ==
    Take(Strip(user_input), TitleLen)

\* turn.get(key): None, read as <<>>, when the turn has no such key
TurnGet(turn, key) ==
    IF key \in DOMAIN turn THEN turn[key] ELSE <<>>

\* The latest turn with role "file" that carries a file id
LatestFileTurnWithId(history) ==
    IF \E i \in 1..Len(history) :
           history[i].role = "file" /\ TurnGet(history[i], "file_id") # <<>>
    THEN CHOOSE i \in 1..Len(history) :
             /\ history[i].role = "file" /\ TurnGet(history[i], "file_id") # <<>>
             /\ \A j \in (i + 1)..Len(history) :
                    ~(history[j].role = "file" /\
                      TurnGet(history[j], "file_id") # <<>>)
    ELSE 0

\* for turn in reversed(history): the first turn met with role "file"
LatestFileTurn(history) ==
    IF \E i \in 1..Len(history) : history[i].role = "file"
    THEN CHOOSE i \in 1..Len(history) :
             /\ history[i].role = "file"
             /\ \A j \in (i + 1)..Len(history) : history[j].role # "file"
    ELSE 0

\* Does the loop of chat() call _get_file_text?
CallsGetFileText(history) ==
    /\ LatestFileTurn(history) # 0
    /\ TurnGet(history[LatestFileTurn(history)], "file_id") # <<>>

\* The loop of chat() over reversed(history): the user_input it composes
\* and the cache it leaves
ComposeUserInput(history, user_input, env) ==
    IF ~CallsGetFileText(history)
    THEN [user_input |-> user_input, cache |-> cache]
    ELSE LET turn == history[LatestFileTurn(history)]
             r    == GetFileText(TurnGet(turn, "file_id"), uploads, cache, env)
         IN  [user_input |->
                  IF r.text # <<>>
                  THEN FileHead \o TurnGet(turn, "original_name") \o FileMid
                       \o r.text \o FileTail \o user_input
                  ELSE user_input,
              cache |-> r.cache]

\* The roles of the two save_message calls of a turn, in call order
TurnRolesSwapped ==
    <<"assistant", "user">>

TurnRoles ==
    <<"user", "assistant">>

\* The content saved under a role
TurnContent(rec, role) ==
    IF role = "user" THEN rec.user_input ELSE rec.bot_response

\* chat(), lines 248-259, and stream_chat(), lines 311-322: parse the
\* request, check the login, load the history, check the message
Begin(w, op) ==
    /\ wk[w].pc \in {"idle", "done"}
    /\ started < MaxReq
    /\ \E uid \in Users \cup {NoUser}, msg \in Messages, sid \in ClientSessions :
          LET user_input == Strip(msg)
              history == IF sid # NoSession
                         THEN load_session_messages(uid, sid) ELSE <<>>
              rec == [Idle EXCEPT !.op = op, !.rid = started + 1, !.uid = uid,
                                  !.message = user_input,
                                  !.user_input = user_input,
                                  !.req_sid = sid, !.session_id = sid]
          IN  wk' = [wk EXCEPT ![w] =
                  IF uid = NoUser
                  THEN Respond(rec, 401, NoSession, LoginRequired)
                  ELSE IF user_input = <<>>
                  THEN Respond(rec, 200, NoSession, NoInputProvided)
                  ELSE [rec EXCEPT !.history = history,
                                   !.pc = IF op = "chat" /\ sid = NoSession
                                          THEN "new_session" ELSE "model"]]
    /\ started' = started + 1
    /\ UNCHANGED << dbVars, fsVars, available, gw, fn >>

ChatBegin(w) ==
    Begin(w, "chat")

StreamBegin(w) ==
    Begin(w, "stream_chat")

\* chat(), lines 261-272: draw a session id and insert the session row
ChatNewSession(w) ==
    /\ wk[w].pc = "new_session"
    /\ uuid_count < Len(UuidPool)
    /\ uuid_count' = uuid_count + 1
    /\ InsertSession(NewUuid, wk[w].uid, Title(wk[w].user_input), wk[w].rid)
    /\ wk' = [wk EXCEPT ![w].session_id = NewUuid, ![w].pc = "model"]
    /\ UNCHANGED << conversations, conv_seq, savedLog, fsVars, started,
                    available, gw, fn >>

\* chat(), lines 271-272: the INSERT raised.  The id drawn is stored
\* nowhere, so the next draw may give any value not yet stored.
ChatNewSessionFails(w) ==
    /\ wk[w].pc = "new_session"
    /\ uuid_count < Len(UuidPool)
    /\ wk' = [wk EXCEPT ![w] =
                  Respond([wk[w] EXCEPT !.session_id = NewUuid, !.dberr = TRUE],
                          200, NoSession, ErrorText(DbErrorText))]
    /\ UNCHANGED << dbVars, fsVars, started, available, gw, fn >>

\* chat(), lines 274-292: compose the message and call the gateway
ChatModel(w) ==
    /\ wk[w].pc = "model"
    /\ wk[w].op = "chat"
    /\ \E outs \in (IF available THEN ChatAttempts ELSE {<<Raises>>}),
          env \in (IF CallsGetFileText(wk[w].history) THEN FileEnvs ELSE {QuietEnv}) :
          LET c == ComposeUserInput(wk[w].history, wk[w].user_input, env)
          IN  /\ wk' = [wk EXCEPT ![w].user_input = c.user_input,
                                  ![w].bot_response = chat_response(outs),
                                  ![w].pc = "save1"]
              /\ cache' = c.cache
    /\ UNCHANGED << dbVars, uploads, file_map, ft, started, available, gw, fn >>

\* stream_chat(), lines 324-327: call the gateway
StreamModel(w) ==
    /\ wk[w].pc = "model"
    /\ wk[w].op = "stream_chat"
    /\ \E outs \in (IF available THEN ChatAttempts ELSE {<<Raises>>}) :
          wk' = [wk EXCEPT ![w].bot_response = chat_response(outs),
                           ![w].pc = "save1"]
    /\ UNCHANGED << dbVars, fsVars, started, available, gw, fn >>

\* chat(), lines 297-300, and stream_chat(), lines 329-344: one of the two
\* save_message calls; after the second the request is answered
SaveTurn(w, n) ==
    /\ wk[w].pc = IF n = 1 THEN "save1" ELSE "save2"
    /\ save_message(wk[w].uid, TurnRoles[n], TurnContent(wk[w], TurnRoles[n]),
                    wk[w].session_id, wk[w].rid)
    /\ wk' = [wk EXCEPT ![w] =
                  IF n = 1 THEN [wk[w] EXCEPT !.pc = "save2"]
                  ELSE Respond(wk[w], 200,
                               IF wk[w].op = "chat" THEN wk[w].session_id
                               ELSE NoSession,
                               wk[w].bot_response)]
    /\ UNCHANGED << chat_sessions, uuid_count, fsVars, started,
                    available, gw, fn >>

SaveUser(w) ==
    SaveTurn(w, 1)

SaveAssistant(w) ==
    SaveTurn(w, 2)

\* save_message raised: chat() answers with the error text (lines 301-303),
\* stream_chat() lets it through and Flask answers 500
SaveFails(w) ==
    /\ wk[w].pc \in {"save1", "save2"}
    /\ wk' = [wk EXCEPT ![w] =
                  IF wk[w].op = "chat"
                  THEN Respond([wk[w] EXCEPT !.dberr = TRUE], 200, NoSession,
                               ErrorText(DbErrorText))
                  ELSE Respond([wk[w] EXCEPT !.dberr = TRUE], 500, NoSession, <<>>)]
    /\ UNCHANGED << dbVars, fsVars, started, available, gw, fn >>

-----------------------------------------------------------------------------
(* The database at start: created empty by init_db(), or the app.db of an  *)
(* earlier run, which holds a session with a file turn                     *)

LegacyRows ==
    { [id |-> 1, user_id |-> "u1", role |-> "user", content |-> <<"q">>,
       session_id |-> LegacySession, req |-> 0],
      [id |-> 2, user_id |-> "u1", role |-> "file",
       content |-> <<"d", ".", "t", "x", "t">>,
       session_id |-> LegacySession, req |-> 0] }

LegacyLog ==
    [i \in 1..Cardinality(LegacyRows) |->
        LET r == OrderById(LegacyRows)[i]
        IN  [user_id |-> r.user_id, role |-> r.role, content |-> r.content,
             session_id |-> r.session_id]]

NoResult ==
    [kind |-> "none", value |-> <<>>]

\* No gateway operation called yet
IdleGateway ==
    [pc |-> "idle", k |-> 0, op |-> "none", top_k |-> 0, parts |-> <<>>,
     partials |-> <<>>, calls |-> <<>>, returned |-> FALSE, ret |-> <<>>,
     blank |-> FALSE, result |-> NoResult]

NoCall ==
    [k |-> 0, filename |-> <<>>, text |-> <<>>, invoked |-> FALSE,
     raised |-> FALSE, raw |-> <<>>, crash |-> FALSE, wrote |-> FALSE]

NoResponse ==
    [status |-> 0, error |-> FALSE, file_id |-> <<>>, text_available |-> FALSE]

\* No upload and no _get_file_text call made yet
NoCalls ==
    [n |-> 0, last |-> NoCall, ok |-> <<>>, resp |-> NoResponse]

InitDb ==
    \/ /\ chat_sessions = {}
       /\ conversations = {}
       /\ conv_seq = 0
       /\ savedLog = <<>>
    \/ /\ chat_sessions = {[id |-> LegacySession, user_id |-> "u1",
                            title |-> <<"o", "l", "d">>, req |-> 0]}
       /\ conversations = LegacyRows
       /\ conv_seq = Cardinality(LegacyRows)
       /\ savedLog = LegacyLog

\* Every variable but fn
InitState ==
    /\ InitDb
    /\ uuid_count = 0
    /\ wk = [w \in Workers |-> Idle]
    /\ started = 0
    /\ available \in BOOLEAN
    /\ uploads = {}
    /\ cache = <<>>
    /\ file_map = <<>>
    /\ ft = NoCalls
    /\ gw = IdleGateway

\* No function applied
Unapplied ==
    [name |-> "none", text |-> <<>>, n |-> 0, out |-> <<>>, done |-> FALSE,
     at |-> [p |-> 0, last |-> 0, allowEmpty |-> TRUE], last |-> FALSE,
     buf |-> <<>>, uid |-> NoUser, status |-> 0, body |-> <<>>,
     history |-> <<>>, composed |-> <<>>, env |-> QuietEnv, calls |-> 0,
     sid |-> NoSession]

Init ==
    InitState /\ fn = Unapplied

Next ==
    \E w \in {MainWorker} :
        \/ ChatBegin(w)
        \/ StreamBegin(w)
        \/ ChatNewSession(w)
        \/ ChatNewSessionFails(w)
        \/ ChatModel(w)
        \/ StreamModel(w)
        \/ SaveUser(w)
        \/ SaveAssistant(w)
        \/ SaveFails(w)

Spec ==
    Init /\ [][Next]_vars

-----------------------------------------------------------------------------
(* /upload and _get_file_text over the upload folder and the cache *)

\* request.files["file"] absent
NoFile ==
    [present |-> FALSE, filename |-> <<>>]

\* The filenames a client sends
UploadNames ==
    { <<"a", ".", "P", "D", "F">>, <<"b", ".", "p", "n", "g">>,
      <<"c", ".", "c", "s", "v">>, <<"/", "d", ".", "t", "x", "t">>,
      <<"e", ".", "d", "o", "c", "x">>, <<".", "p", "d", "f">>,
      <<"x">>, <<"y", ".", "e", "x", "e">>, <<>> }

\* request.files of an upload request
UploadFiles ==
    {NoFile} \cup {[present |-> TRUE, filename |-> f] : f \in UploadNames}

\* A name no upload was stored under
NeverStored ==
    <<"0", "_", "z", ".", "t", "x", "t">>

\* "text non-empty and not starting with '(error)'"
Succeeded(text) ==
    text # <<>> /\ ~StartsWith(text, ErrorMark)

\* ghost: the call of _get_file_text(filename) that gave r on the cache c
Recorded(filename, r, c, resp) ==
    [n    |-> ft.n + 1,
     last |-> [k |-> ft.n + 1, filename |-> filename, text |-> r.text,
               invoked |-> r.invoked, raised |-> r.raised, raw |-> r.raw,
               crash |-> r.crash, wrote |-> r.cache # c],
     ok   |-> IF Succeeded(r.text) /\ filename \notin DOMAIN ft.ok
              THEN Put(ft.ok, filename, r.text) ELSE ft.ok,
     resp |-> resp]

UploadRefused ==
    [status |-> 200, error |-> TRUE, file_id |-> <<>>, text_available |-> FALSE]

\* upload_file(): the three early returns
Refused(file) ==
    ~file.present \/ file.filename = <<>> \/ ~allowed_file(file.filename)

\* upload_file()
Upload(file, env) ==
    /\ ft.n < MaxCalls
    /\ uuid_count < Len(HexPool)
    /\ IF Refused(file)
       THEN /\ ft' = [ft EXCEPT !.n = @ + 1, !.resp = UploadRefused]
            /\ UNCHANGED << uploads, cache, file_map, uuid_count >>
       ELSE LET original_name == secure_filename(file.filename)
                unique_name   == UniqueName(original_name)
                stored        == uploads \cup {unique_name}
                r == GetFileText(unique_name, stored, cache, env)
            IN  /\ uploads' = stored
                /\ file_map' = Put(file_map, original_name, unique_name)
                /\ uuid_count' = uuid_count + 1
                /\ IF ~HasDot(original_name)
                   THEN /\ ft' = [ft EXCEPT !.n = @ + 1,
                                            !.resp = [UploadRefused EXCEPT
                                                          !.status = 500]]
                        /\ UNCHANGED cache
                   ELSE /\ cache' = r.cache
                        /\ ft' = Recorded(unique_name, r, cache,
                                     [status |-> 200, error |-> FALSE,
                                      file_id |-> unique_name,
                                      text_available |-> r.text # <<>>])
    /\ UNCHANGED << chat_sessions, conversations, conv_seq, savedLog,
                    httpVars, available, gw, fn >>

\* _get_file_text(filename), as /chat calls it for the file of a session
GetText(filename, env) ==
    /\ ft.n < MaxCalls
    /\ LET r == GetFileText(filename, uploads, cache, env)
       IN  /\ ~r.raised
           /\ cache' = r.cache
           /\ ft' = Recorded(filename, r, cache, ft.resp)
    /\ UNCHANGED << dbVars, httpVars, uploads, file_map, available, gw, fn >>

\* The uploaded file is removed from the upload folder; _get_file_text
\* tests for it with os.path.exists
RemoveUpload(filename) ==
    /\ filename \in uploads
    /\ uploads' = uploads \ {filename}
    /\ UNCHANGED << dbVars, httpVars, cache, file_map, ft, available, gw, fn >>

NextFile ==
    \/ \E file \in UploadFiles :
           \E env \in (IF Refused(file) THEN {QuietEnv} ELSE FileEnvs) :
               Upload(file, env)
    \/ \E filename \in uploads \cup DOMAIN cache \cup {NeverStored} :
           \E env \in (IF filename \in uploads \ DOMAIN cache
                        THEN FileEnvs ELSE {QuietEnv}) :
               GetText(filename, env)
    \/ \E filename \in uploads : RemoveUpload(filename)

\* A fresh installation: init_db() has created the empty tables
InitFile ==
    Init /\ conversations = {} /\ available

SpecFile ==
    InitFile /\ [][NextFile]_vars

-----------------------------------------------------------------------------
(* Gateway operations: summarize, keywords, explain_pdf_text *)

\* max_chars of _chunk_text
ChunkChars == 3800

\* s.rfind(p): the 0-based index of the last occurrence, -1 when none
RFind(s, p) ==
    LET at == {i \in 1..(Len(s) - Len(p) + 1) : SubSeq(s, i, i + Len(p) - 1) = p}
    IN  IF at = {} THEN -1
        ELSE (CHOOSE i \in at : \A j \in at : j <= i) - 1

\* The while loop with "cut >= max_chars * 0.5"
RECURSIVE ChunkFromHalf(_, _, _)
ChunkFromHalf(text, start, max_chars) ==
    IF start >= Len(text) THEN <<>>
    ELSE LET stop   == IF start + max_chars < Len(text)
                       THEN start + max_chars ELSE Len(text)
             slice_ == SubSeq(text, start + 1, stop)
             nl     == RFind(slice_, <<"\n">>)
             period == RFind(slice_, <<".", " ">>)
             cut    == IF nl > period THEN nl ELSE period
             end    == IF stop < Len(text) /\ 2 * cut >= max_chars
                       THEN start + cut + 1 ELSE stop
         IN  <<Strip(SubSeq(text, start + 1, end))>> \o
             ChunkFromHalf(text, end, max_chars)

\* The while loop of _chunk_text, from the 0-based position start
RECURSIVE ChunkFrom(_, _, _)
ChunkFrom(text, start, max_chars) ==
    IF start >= Len(text) THEN <<>>
    ELSE LET stop   == IF start + max_chars < Len(text)
                       THEN start + max_chars ELSE Len(text)
             slice_ == SubSeq(text, start + 1, stop)
             nl     == RFind(slice_, <<"\n">>)
             period == RFind(slice_, <<".", " ">>)
             cut    == IF nl > period THEN nl ELSE period
             end    == IF stop < Len(text) /\ 2 * cut > max_chars
                       THEN start + cut + 1 ELSE stop
         IN  <<Strip(SubSeq(text, start + 1, end))>> \o
             ChunkFrom(text, end, max_chars)

\* _chunk_text(text, max_chars)
_chunk_text(text, max_chars) ==
    IF text = <<>> THEN <<>>
    ELSE IF Len(Strip(text)) <= max_chars THEN <<Strip(text)>>
    ELSE ChunkFrom(Strip(text), 0, max_chars)

\* s.split(sep) for the one-character separators seps
RECURSIVE SplitOn(_, _)
SplitOn(s, seps) ==
    IF \A i \in 1..Len(s) : s[i] \notin seps THEN <<s>>
    ELSE LET i == CHOOSE k \in 1..Len(s) :
                      /\ s[k] \in seps
                      /\ \A j \in 1..(k - 1) : s[j] \notin seps
         IN  <<SubSeq(s, 1, i - 1)>> \o SplitOn(SubSeq(s, i + 1, Len(s)), seps)

\* A JSON string without escapes, as json.loads reads it
IsJsonString(t) ==
    /\ Len(t) >= 2
    /\ t[1] = "\"" /\ t[Len(t)] = "\""
    /\ \A i \in 2..(Len(t) - 1) : t[i] \notin {"\"", "\\", ","}

\* json.loads(raw) on the arrays of such strings: whether it gives a list,
\* and the list
JsonList(raw) ==
    LET t     == Strip(raw)
        inner == SubSeq(t, 2, Len(t) - 1)
        items == SplitOn(inner, {","})
    IN  IF Len(t) < 2 \/ t[1] # "[" \/ t[Len(t)] # "]"
        THEN [list |-> FALSE, arr |-> <<>>]
        ELSE IF Strip(inner) = <<>> THEN [list |-> TRUE, arr |-> <<>>]
        ELSE IF \A i \in 1..Len(items) : IsJsonString(Strip(items[i]))
        THEN [list |-> TRUE,
              arr |-> [i \in 1..Len(items) |->
                          SubSeq(Strip(items[i]), 2, Len(Strip(items[i])) - 1)]]
        ELSE [list |-> FALSE, arr |-> <<>>]

\* The characters of p.strip(" \"'[]{}")
KeywordStrip ==
    {" ", "\"", "'", "[", "]", "{", "}"}

\* The for loop of keywords over the pieces of raw
RECURSIVE KeywordsScan(_, _, _)
KeywordsScan(pieces, out, top_k) ==
    IF pieces = <<>> THEN out
    ELSE LET p    == RStripChars(LStripChars(pieces[1], KeywordStrip), KeywordStrip)
             out1 == IF p # <<>> /\ \A i \in 1..Len(out) : out[i] # p
                     THEN Append(out, p) ELSE out
         IN  IF Len(out1) >= top_k THEN out1
             ELSE KeywordsScan(Tail(pieces), out1, top_k)

\* keywords, from the raw text _generate returned
KeywordsOf(raw, top_k) ==
    IF JsonList(raw).list
    THEN Take([i \in 1..Len(JsonList(raw).arr) |-> Strip(JsonList(raw).arr[i])],
              top_k)
    ELSE KeywordsScan(SplitOn(raw, {",", "\n"}), <<>>, top_k)

-----------------------------------------------------------------------------
(* The gateway, one step per generate_content attempt *)

GatewayOps ==
    {"chat_response", "summarize", "keywords", "explain_pdf_text"}

\* The text argument of an operation
GwTexts ==
    {<<>>, <<" ">>, <<" ", "T", "x", "t">>}

\* top_k of keywords: the default and two small values
TopKs ==
    {0, 1, 8}

StrResult(text) ==
    [kind |-> "str", value |-> text]

ListResult(list) ==
    [kind |-> "list", value |-> list]

\* The value an operation returns before any model call, if it does
EarlyReturn(op, text) ==
    IF ~available
    THEN IF op = "keywords" THEN ListResult(<<>>) ELSE StrResult(ModelNotAvailable)
    ELSE IF op = "summarize" /\ Strip(text) = <<>> THEN StrResult(NoTextProvided)
    ELSE IF op = "explain_pdf_text" /\ Strip(text) = <<>>
    THEN StrResult(NoTextToExplain)
    ELSE NoResult

\* An operation is called: chat_response, summarize, keywords or
\* explain_pdf_text up to its first _generate
GwCall(op, text, top_k) ==
    /\ gw.pc \in {"idle", "done"}
    /\ gw.k < MaxOps
    /\ gw' = [IdleGateway EXCEPT
                 !.k = gw.k + 1,
                 !.op = op,
                 !.top_k = top_k,
                 !.pc = IF EarlyReturn(op, text) = NoResult THEN "call" ELSE "done",
                 !.parts = IF op \in {"summarize", "explain_pdf_text"}
                           THEN _chunk_text(text, ChunkChars) ELSE <<>>,
                 !.result = EarlyReturn(op, text)]
    /\ UNCHANGED << dbVars, httpVars, fsVars, available, fn >>

\* What the returned text of a _generate call leads to: the next partial,
\* the combining call, or the operation's return value
Advance(g, text) ==
    IF g.parts # <<>>
    THEN [g EXCEPT !.parts = Tail(g.parts), !.partials = Append(g.partials, text)]
    ELSE [g EXCEPT !.pc = "done",
                   !.result = IF g.op = "keywords"
                              THEN ListResult(KeywordsOf(text, g.top_k))
                              ELSE StrResult(text)]

\* _generate after one attempt of _call_model with the given outcome
AfterAttempt(outcome) ==
    LET cur   == IF gw.returned THEN <<>> ELSE gw.calls
        n     == Len(cur) + 1
        g     == [gw EXCEPT !.calls = Append(cur, outcome.raises)]
        back(r) == Advance([g EXCEPT !.returned = TRUE,
                                     !.ret = GenerateReturn(r),
                                     !.blank = ~r.raised /\ ExtractText(r.resp) = <<>>],
                           GenerateReturn(r))
    IN  IF ~available THEN Advance([g EXCEPT !.calls = cur, !.returned = TRUE,
                                             !.ret = ModelNotConfigured],
                                   ModelNotConfigured)
        ELSE IF ~ShouldRetry(outcome)
        THEN back([raised |-> FALSE, resp |-> outcome.resp, exc |-> <<>>])
        ELSE IF StopAfterAttempt(n)
        THEN back([raised |-> TRUE, resp |-> NoResp, exc |-> RetryErrorText])
        ELSE [g EXCEPT !.returned = FALSE]

\* generate_content returns a response
AttemptReturns(resp) ==
    /\ gw.pc = "call"
    /\ gw' = AfterAttempt(Returns(resp))
    /\ UNCHANGED << dbVars, httpVars, fsVars, available, fn >>

\* generate_content raises
AttemptRaises ==
    /\ gw.pc = "call"
    /\ gw' = AfterAttempt(Raises)
    /\ UNCHANGED << dbVars, httpVars, fsVars, available, fn >>

NextGen ==
    \/ \E op \in GatewayOps, text \in GwTexts :
           \E top_k \in (IF op = "keywords" THEN TopKs ELSE {0}) :
               GwCall(op, text, top_k)
    \/ \E resp \in Responses : AttemptReturns(resp)
    \/ AttemptRaises

\* get_wrapper() has run: the model is configured or it is not
InitGen ==
    Init /\ conversations = {}

SpecGen ==
    InitGen /\ [][NextGen]_vars

-----------------------------------------------------------------------------
(* _chunk_text applied to one text: both copies *)

\* The while loop of utils._chunk_text: "if cut > int(max_chars * 0.5)"
RECURSIVE UtilsChunkFrom(_, _, _)
UtilsChunkFrom(text, start, max_chars) ==
    IF start >= Len(text) THEN <<>>
    ELSE LET stop        == IF start + max_chars < Len(text)
                            THEN start + max_chars ELSE Len(text)
             slice_      == SubSeq(text, start + 1, stop)
             last_nl     == RFind(slice_, <<"\n">>)
             last_period == RFind(slice_, <<".", " ">>)
             cut         == IF last_nl > last_period THEN last_nl ELSE last_period
             end         == IF stop < Len(text) /\ cut > (max_chars \div 2)
                            THEN start + cut + 1 ELSE stop
         IN  <<Strip(SubSeq(text, start + 1, end))>> \o
             UtilsChunkFrom(text, end, max_chars)

\* utils._chunk_text(text, max_chars)
ChunkWhole(text, max_chars) ==
    <<Strip(text)>>

utils_chunk_text(text, max_chars) ==
    IF text = <<>> THEN <<>>
    ELSE IF Len(Strip(text)) <= max_chars THEN <<Strip(text)>>
    ELSE UtilsChunkFrom(Strip(text), 0, max_chars)

\* The characters of the texts chunked: a letter, the two cut marks and
\* the blank
ChunkAlphabet ==
    {"a", ".", " ", "\n"}

ChunkTexts ==
    UNION {[1..k -> ChunkAlphabet] : k \in 0..MaxText}

\* max_chars: the smallest, two even ones, and the largest of the model
ChunkSizes ==
    {1, 2, 4, MaxChunk}

InitChunk ==
    /\ InitState /\ conversations = {} /\ available
    /\ fn \in {[Unapplied EXCEPT !.text = t, !.n = m] :
                  t \in ChunkTexts, m \in ChunkSizes}

\* model_wrapper._chunk_text(text, max_chars)
ChunkModelWrapper ==
    /\ ~fn.done
    /\ fn' = [fn EXCEPT !.name = "model_wrapper._chunk_text",
                        !.out = _chunk_text(fn.text, fn.n), !.done = TRUE]
    /\ UNCHANGED << dbVars, httpVars, fsVars, available, gw >>

\* utils._chunk_text(text, max_chars)
ChunkUtils ==
    /\ ~fn.done
    /\ fn' = [fn EXCEPT !.name = "utils._chunk_text",
                        !.out = utils_chunk_text(fn.text, fn.n), !.done = TRUE]
    /\ UNCHANGED << dbVars, httpVars, fsVars, available, gw >>

NextChunk ==
    ChunkModelWrapper \/ ChunkUtils

SpecChunk ==
    InitChunk /\ [][NextChunk]_vars

-----------------------------------------------------------------------------
(* keywords applied to one raw model output *)

\* The characters of the raw outputs: two letters, the separators, and
\* characters the fallback strips
KeywordAlphabet ==
    {"k", "j", ",", "\n", " ", "\"", "["}

KeywordRaws ==
    UNION {[1..k -> KeywordAlphabet] : k \in 0..MaxRaw}

InitKeywords ==
    /\ InitState /\ conversations = {} /\ available
    /\ fn \in {[Unapplied EXCEPT !.text = t, !.n = m] :
                  t \in KeywordRaws, m \in 0..MaxTopK}

\* ModelWrapper.keywords, from the raw text on
KeywordsParse ==
    /\ ~fn.done
    /\ fn' = [fn EXCEPT !.name = "keywords",
                        !.out = KeywordsOf(fn.text, fn.n), !.done = TRUE]
    /\ UNCHANGED << dbVars, httpVars, fsVars, available, gw >>

NextKeywords ==
    KeywordsParse

SpecKeywords ==
    InitKeywords /\ [][NextKeywords]_vars

-----------------------------------------------------------------------------
(* The generator of /stream_chat applied to one full response *)

\* "if len(buf) > 120"
StreamLimit == 120

\* s[i:j] of Python, 0-based and half-open
Slice(s, i, j) ==
    SubSeq(s, i + 1, j)

\* re.split(r"(\\.|\\?|!|\\n)", full): the pattern reads "a backslash and
\* any character but a newline, or an optional backslash, or '!', or a
\* backslash and n", so it matches the empty string at every position.
\* One step of the scan: at.p is the position searched from, at.last the
\* end of the previous match, and an empty match is not taken twice at one
\* position.  Gives the parts the step adds to the list.
ScanStart ==
    [p |-> 0, last |-> 0, allowEmpty |-> TRUE]

SplitStep(s, at) ==
    IF at.p > Len(s)
    THEN [parts |-> <<Slice(s, at.last, Len(s))>>, at |-> at, end |-> TRUE]
    ELSE IF at.p < Len(s) /\ s[at.p + 1] = "\\"
    THEN LET m == IF at.p + 1 < Len(s) /\ s[at.p + 2] # "\n" THEN 2 ELSE 1
         IN  [parts |-> <<Slice(s, at.last, at.p), Slice(s, at.p, at.p + m)>>,
              at |-> [p |-> at.p + m, last |-> at.p + m, allowEmpty |-> TRUE],
              end |-> FALSE]
    ELSE IF at.allowEmpty
    THEN [parts |-> <<Slice(s, at.last, at.p), <<>> >>,
          at |-> [p |-> at.p, last |-> at.p, allowEmpty |-> FALSE],
          end |-> FALSE]
    ELSE IF at.p < Len(s) /\ s[at.p + 1] = "!"
    THEN [parts |-> <<Slice(s, at.last, at.p), <<"!">> >>,
          at |-> [p |-> at.p + 1, last |-> at.p + 1, allowEmpty |-> TRUE],
          end |-> FALSE]
    ELSE [parts |-> <<>>,
          at |-> [p |-> at.p + 1, last |-> at.last, allowEmpty |-> TRUE],
          end |-> FALSE]

RECURSIVE ReSplitFrom(_, _)
ReSplitFrom(s, at) ==
    IF SplitStep(s, at).end THEN SplitStep(s, at).parts
    ELSE SplitStep(s, at).parts \o ReSplitFrom(s, SplitStep(s, at).at)

ReSplit(full) ==
    ReSplitFrom(full, ScanStart)

\* The body of the loop of gen() for the next parts: the buffer and the
\* buffers yielded afterwards
RECURSIVE Feed(_, _, _)
Feed(parts, buf, out) ==
    IF parts = <<>> THEN [buf |-> buf, out |-> out]
    ELSE IF Len(buf \o parts[1]) > StreamLimit
    THEN Feed(Tail(parts), <<>>, Append(out, buf \o parts[1]))
    ELSE Feed(Tail(parts), buf \o parts[1], out)

\* f"data: {buf.strip()}\\n\\n": the event text ends in the four
\* characters backslash, n, backslash, n
Event(buf) ==
    <<"d", "a", "t", "a", ":", " ">> \o Strip(buf) \o <<"\\", "n", "\\", "n">>

\* The payload of the event of a buffer
Payload(buf) ==
    Strip(buf)

StreamAlphabet ==
    {"a", " ", ".", "!", "\n", "\\"}

\* The blocks the responses are made of
StreamBlocks ==
    UNION {[1..k -> StreamAlphabet] : k \in 1..MaxBlock}

\* The first n characters of block, block, block, ...
Fill(block, n) ==
    [i \in 1..n |-> block[((i - 1) % Len(block)) + 1]]

\* Response lengths: short, at the limit, just over it, and beyond
StreamLengths ==
    {0, 3, StreamLimit, StreamLimit + 1, MaxStream}

InitStream ==
    /\ InitState /\ conversations = {} /\ available
    /\ fn \in {[Unapplied EXCEPT !.text = Fill(b, n)] :
                  b \in StreamBlocks, n \in StreamLengths}

\* gen(): the loop takes the next parts of the split response
GenLoop ==
    /\ ~fn.done
    /\ ~fn.last
    /\ LET step == SplitStep(fn.text, fn.at)
           fed  == Feed(step.parts, fn.buf, fn.out)
       IN  fn' = [fn EXCEPT !.name = "gen", !.at = step.at, !.last = step.end,
                            !.buf = fed.buf, !.out = fed.out]
    /\ UNCHANGED << dbVars, httpVars, fsVars, available, gw >>

\* gen(): "if buf: yield", and the generator ends
GenRemainder ==
    /\ ~fn.done
    /\ fn.last
    /\ fn' = [fn EXCEPT !.done = TRUE, !.buf = <<>>,
                        !.out = IF fn.buf # <<>> THEN Append(fn.out, fn.buf)
                                ELSE fn.out]
    /\ UNCHANGED << dbVars, httpVars, fsVars, available, gw >>

NextStream ==
    GenLoop \/ GenRemainder

SpecStream ==
    InitStream /\ [][NextStream]_vars

-----------------------------------------------------------------------------
(* GET /ping (app.py), next to the gateway at work *)

\* A body other than ping()'s
PingBodyError ==
    << <<"status", "error">> >>

\* jsonify({"status": "ok"}): the members of the body
PingBody ==
    << <<"status", "ok">> >>

\* ping(), asked by the client with the login uid
Ping(uid) ==
    /\ fn.n < MaxPings
    /\ fn' = [fn EXCEPT !.name = "ping", !.n = @ + 1, !.uid = uid,
                        !.status = 200, !.body = PingBody]
    /\ UNCHANGED << dbVars, httpVars, fsVars, available, gw >>

NextPing ==
    \/ NextGen
    \/ \E uid \in Users \cup {NoUser} : Ping(uid)

\* The database empty or that of an earlier run, the model configured or not
InitPing ==
    Init

SpecPing ==
    InitPing /\ [][NextPing]_vars

-----------------------------------------------------------------------------
(* The loop of chat() over a history, lines 274-286, applied to one history *)

\* The stored names of two uploads
StoredNames ==
    { <<"1", "_", "a", ".", "t", "x", "t">>, <<"2", "_", "b", ".", "t", "x", "t">> }

\* original_name of a stored name: what follows the hex and the "_"
OriginalOf(unique_name) ==
    SubSeq(unique_name, 3, Len(unique_name))

\* The cached text of a stored name
CachedTextOf(unique_name) ==
    <<"T", unique_name[1]>>

\* The turns of a history: a user turn, a file turn as /upload answers it
\* for each stored name, a file turn whose file was never stored, and a
\* file turn as load_session_messages gives it, without file_id
HistoryTurns ==
    { [role |-> "user", content |-> <<"q">>],
      [role |-> "file", content |-> <<"d", ".", "t", "x", "t">>] } \cup
    { [role |-> "file", content |-> OriginalOf(f), file_id |-> f,
       original_name |-> OriginalOf(f)] : f \in StoredNames \cup {NeverStored} }

Histories ==
    UNION {[1..n -> HistoryTurns] : n \in 0..MaxTurns}

\* Two uploads have been stored; the text of each is cached or not yet
InitCompose ==
    /\ chat_sessions = {}
    /\ conversations = {}
    /\ conv_seq = 0
    /\ savedLog = <<>>
    /\ uuid_count = Cardinality(StoredNames)
    /\ wk = [w \in Workers |-> Idle]
    /\ started = 0
    /\ available = TRUE
    /\ gw = IdleGateway
    /\ ft = NoCalls
    /\ uploads = StoredNames
    /\ file_map = [n \in {OriginalOf(f) : f \in StoredNames} |->
                      CHOOSE f \in StoredNames : OriginalOf(f) = n]
    /\ \E cached \in SUBSET StoredNames :
           cache = [f \in cached |-> CachedTextOf(f)]
    /\ fn \in {[Unapplied EXCEPT !.history = h, !.text = <<"m">>] :
                  h \in Histories}

\* chat(), lines 274-286, on the history and the message of fn
ChatCompose(env) ==
    /\ fn.name = "none"
    /\ LET c == ComposeUserInput(fn.history, fn.text, env)
       IN  /\ fn' = [fn EXCEPT !.name = "compose", !.composed = c.user_input]
           /\ cache' = c.cache
    /\ UNCHANGED << dbVars, httpVars, uploads, file_map, ft, available, gw >>

NextCompose ==
    \E env \in (IF CallsGetFileText(fn.history) THEN FileEnvs ELSE {QuietEnv}) :
        ChatCompose(env)

SpecCompose ==
    InitCompose /\ [][NextCompose]_vars

-----------------------------------------------------------------------------
(* extract_text_from_pdf step by step (utils.py), then /upload of the PDF *)

\* An OCR fallback that runs whatever the direct extraction gave
PdfRunsOcrAlways(text) ==
    TRUE

\* "if not text.strip() and use_ocr"
PdfRunsOcr(text) ==
    Strip(text) = <<>>

\* What PyPDF2 and OCR may do with the PDF
PdfEnvs ==
    [lib : LibOutcomes, ocr : LibOutcomes, crash : {FALSE}]

\* The uploaded PDF
PdfFile ==
    [present |-> TRUE, filename |-> <<"a", ".", "P", "D", "F">>]

InitPdf ==
    /\ InitState /\ conversations = {} /\ available
    /\ fn \in {[Unapplied EXCEPT !.env = e] : e \in PdfEnvs}

\* Lines 76-86: the text layer read with PyPDF2, "" when it raises
PdfRead ==
    /\ fn.name = "none"
    /\ fn' = [fn EXCEPT !.name = "read",
                        !.text = IF fn.env.lib.raises THEN <<>>
                                 ELSE fn.env.lib.text]
    /\ UNCHANGED << dbVars, httpVars, fsVars, available, gw >>

\* Lines 89-93: the OCR fallback
PdfOcr ==
    /\ fn.name = "read"
    /\ PdfRunsOcr(fn.text)
    /\ fn' = [fn EXCEPT !.name = "ocr", !.calls = @ + 1,
                        !.text = pdf_to_text_via_ocr(fn.env.ocr)]
    /\ UNCHANGED << dbVars, httpVars, fsVars, available, gw >>

\* Lines 95-102: the sentinel or the stripped text
PdfReturn ==
    /\ ~fn.done
    /\ fn.name = "ocr" \/ (fn.name = "read" /\ ~PdfRunsOcr(fn.text))
    /\ fn' = [fn EXCEPT !.done = TRUE,
                        !.out = IF Strip(fn.text) = <<>> THEN PdfNoText
                                ELSE Strip(fn.text)]
    /\ UNCHANGED << dbVars, httpVars, fsVars, available, gw >>

\* upload_file() with this PDF
PdfUpload ==
    /\ fn.done
    /\ Upload(PdfFile, fn.env)

NextPdf ==
    PdfRead \/ PdfOcr \/ PdfReturn \/ PdfUpload

SpecPdf ==
    InitPdf /\ [][NextPdf]_vars

-----------------------------------------------------------------------------
(* ModelWrapper.chat_response: the prompt (model_wrapper.py) *)

MaxOlder == 2

\* history[-8:] without its bound
AllTurns(history) ==
    history

\* history[-8:]
LastTurns(history) ==
    SubSeq(history,
           IF Len(history) > HistoryWindow THEN Len(history) - HistoryWindow + 1 ELSE 1,
           Len(history))

\* The character U+2014 of system
EmDash ==
    "U+2014"

\* The text of system
SystemText ==
    <<
       "Y", "o", "u", " ", "a", "r", "e", " ", "W", "O", "R", "I", "S", "O",
       "N", " ", EmDash, " ", "W", "i", "s", "d", "o", "m", "-", "O", "r", "i",
       "e", "n", "t", "e", "d", " ", "R", "e", "s", "p", "o", "n", "s", "i",
       "v", "e", " ", "I", "n", "t", "e", "l", "l", "i", "g", "e", "n", "t",
       " ", "S", "u", "p", "p", "o", "r", "t", " ", "&", " ", "O", "p", "e",
       "r", "a", "t", "i", "o", "n", "s", " ", "N", "e", "t", "w", "o", "r",
       "k", ".", " ", "Y", "o", "u", " ", "a", "r", "e", " ", "a", " ", "h",
       "e", "l", "p", "f", "u", "l", ",", " ", "p", "r", "e", "c", "i", "s",
       "e", ",", " ", "a", "n", "d", " ", "r", "e", "l", "i", "a", "b", "l",
       "e", " ", "A", "I", " ", "a", "s", "s", "i", "s", "t", "a", "n", "t",
       " ", "f", "o", "c", "u", "s", "e", "d", " ", "o", "n", " ", "l", "e",
       "a", "r", "n", "i", "n", "g", ",", " ", "a", "n", "a", "l", "y", "s",
       "i", "s", ",", " ", "a", "n", "d", " ", "g", "u", "i", "d", "a", "n",
       "c", "e", "."
    >>

\* f"System: {system}"
SystemLine ==
    <<"S", "y", "s", "t", "e", "m", ":", " ">> \o SystemText

\* label = "Assistant" if role in ("assistant", "bot") else "User"
TurnLabel(role) ==
    IF role \in {"assistant", "bot"}
    THEN <<"A", "s", "s", "i", "s", "t", "a", "n", "t">>
    ELSE <<"U", "s", "e", "r">>

\* content = turn.get("content") or turn.get("text") or ""
TurnText(turn) ==
    IF TurnGet(turn, "content") # <<>> THEN TurnGet(turn, "content")
    ELSE TurnGet(turn, "text")

\* The for loop of chat_response: a line for each turn with a content
RECURSIVE TurnLines(_)
TurnLines(turns) ==
    IF turns = <<>> THEN <<>>
    ELSE (IF TurnText(turns[1]) = <<>> THEN <<>>
          ELSE <<TurnLabel(TurnGet(turns[1], "role")) \o <<":", " ">>
                 \o TurnText(turns[1])>>)
         \o TurnLines(Tail(turns))

\* lines of chat_response
PromptLines(user_message, history) ==
    <<SystemLine>> \o TurnLines(LastTurns(history))
    \o << <<"U", "s", "e", "r", ":", " ">> \o user_message,
          <<"A", "s", "s", "i", "s", "t", "a", "n", "t", ":">> >>

\* "\n".join(lines)
RECURSIVE JoinLines(_)
JoinLines(lines) ==
    IF lines = <<>> THEN <<>>
    ELSE IF Len(lines) = 1 THEN lines[1]
    ELSE lines[1] \o <<"\n">> \o JoinLines(Tail(lines))

\* The content stored for the turn at position i of a history
ContentAt(i) ==
    <<"c", Digits[(i \div 10) + 1], Digits[(i % 10) + 1]>>

\* The histories load_session_messages can give: turns of the roles stored,
\* each with a content
PromptRoles ==
    {"user", "assistant", "file"}

PromptHistories ==
    UNION {{[i \in 1..n |-> [role |-> IF i = f THEN "file" ELSE r[i],
                             content |-> ContentAt(i)]] :
               r \in [1..n -> {"user", "assistant"}], f \in {0, 1, n}} :
           n \in 0..(HistoryWindow + MaxOlder)}

InitPrompt ==
    /\ InitState /\ conversations = {} /\ available
    /\ fn \in {[Unapplied EXCEPT !.history = h, !.text = <<"h", "i">>] :
                  h \in PromptHistories}

\* chat_response(user_message, history) up to the call of _generate
BuildPrompt ==
    /\ fn.name = "none"
    /\ fn' = [fn EXCEPT !.name = "prompt",
                        !.out = PromptLines(fn.text, fn.history),
                        !.composed = JoinLines(PromptLines(fn.text, fn.history))]
    /\ UNCHANGED << dbVars, httpVars, fsVars, available, gw >>

NextPrompt ==
    BuildPrompt

SpecPrompt ==
    InitPrompt /\ [][NextPrompt]_vars

-----------------------------------------------------------------------------
(* /api/session/<sid>, /api/sessions and /api/history (app.py) after the    *)
(* chat requests                                                           *)

MaxApiReq == 1

\* ORDER BY created_at DESC; the ghost req stands for created_at
RECURSIVE NewestFirst(_)
NewestFirst(rows) ==
    IF rows = {} THEN <<>>
    ELSE LET r == CHOOSE x \in rows : \A y \in rows : x.req >= y.req
         IN  <<r>> \o NewestFirst(rows \ {r})

\* chat_store.list_sessions(user_id)
list_sessions(user_id) ==
    LET rows == NewestFirst({x \in chat_sessions : x.user_id = user_id})
    IN  [i \in 1..Len(rows) |-> [id |-> rows[i].id, title |-> rows[i].title]]

\* chat_store.load_conversation(user_id)
load_conversation(user_id) ==
    RoleContent(OrderById({r \in conversations : r.user_id = user_id}))

\* The answer of an endpoint: jsonify([]) without a login
Answered200(endpoint, uid, sid, body) ==
    [fn EXCEPT !.name = endpoint, !.uid = uid, !.sid = sid, !.status = 200,
               !.body = IF uid = NoUser THEN <<>> ELSE body]

\* api_session(sid)
ApiSession(uid, sid) ==
    /\ fn.name = "none"
    /\ fn' = Answered200("api_session", uid, sid, load_session_messages(uid, sid))
    /\ UNCHANGED << dbVars, httpVars, fsVars, available, gw >>

\* api_sessions()
ApiSessions(uid) ==
    /\ fn.name = "none"
    /\ fn' = Answered200("api_sessions", uid, NoSession, list_sessions(uid))
    /\ UNCHANGED << dbVars, httpVars, fsVars, available, gw >>

\* api_history()
ApiHistory(uid) ==
    /\ fn.name = "none"
    /\ fn' = Answered200("api_history", uid, NoSession, load_conversation(uid))
    /\ UNCHANGED << dbVars, httpVars, fsVars, available, gw >>

\* The chat requests of Spec, up to MaxApiReq of them, then one read
ChatRequests ==
    /\ fn.name = "none"
    /\ Next
    /\ started' <= MaxApiReq

NextApi ==
    \/ ChatRequests
    \/ \E uid \in Users \cup {NoUser} :
           \/ \E sid \in ClientSessions \ {NoSession} : ApiSession(uid, sid)
           \/ ApiSessions(uid)
           \/ ApiHistory(uid)

SpecApi ==
    Init /\ [][NextApi]_vars

-----------------------------------------------------------------------------
(* /chat and /stream_chat handled by two workers at once, over a database  *)
(* that does not fail                                                      *)

\* A step of the handler that worker w runs
WorkerStep(w) ==
    \/ ChatBegin(w)
    \/ StreamBegin(w)
    \/ ChatNewSession(w)
    \/ ChatModel(w)
    \/ StreamModel(w)
    \/ SaveUser(w)
    \/ SaveAssistant(w)

NextConc ==
    \E w \in Workers : WorkerStep(w)

\* A fresh installation with the model configured
InitConc ==
    Init /\ conversations = {} /\ available

SpecConc ==
    InitConc /\ [][NextConc]_vars

-----------------------------------------------------------------------------
(* /upload handled by two workers at once: save_file_mapping step by step *)

MaxUploads ==
    3

\* A worker outside upload_file()
NotUploading ==
    [pc |-> "idle", original_name |-> <<>>, unique_name |-> <<>>,
     mapping |-> <<>>, status |-> 0]

\* fn of this model: each worker's locals in upload_file() and
\* save_file_mapping(), and the uploads answered with 200 and a file_id,
\* in the order of their responses
NoUploads ==
    [name |-> "upload", n |-> 0, up |-> [w \in Workers |-> NotUploading],
     completed |-> <<>>]

InitUp ==
    InitState /\ conversations = {} /\ available /\ fn = NoUploads

\* upload_file() up to file.save(path)
UpBegin(w, file) ==
    /\ fn.up[w].pc \in {"idle", "done"}
    /\ fn.n < MaxUploads
    /\ uuid_count < Len(HexPool)
    /\ IF Refused(file)
       THEN /\ fn' = [fn EXCEPT !.n = @ + 1,
                                !.up[w] = [NotUploading EXCEPT
                                               !.pc = "done", !.status = 200]]
            /\ UNCHANGED << uploads, uuid_count >>
       ELSE LET original_name == secure_filename(file.filename)
                unique_name   == UniqueName(original_name)
            IN  /\ uploads' = uploads \cup {unique_name}
                /\ uuid_count' = uuid_count + 1
                /\ fn' = [fn EXCEPT !.n = @ + 1,
                                    !.up[w] = [NotUploading EXCEPT
                                        !.pc = "saved",
                                        !.original_name = original_name,
                                        !.unique_name = unique_name]]
    /\ UNCHANGED << chat_sessions, conversations, conv_seq, savedLog,
                    httpVars, cache, file_map, ft, available, gw >>

\* save_file_mapping(): mapping = json.load(f), {} when the file is absent
\* or empty
UpReadMapping(w) ==
    /\ fn.up[w].pc = "saved"
    /\ fn' = [fn EXCEPT !.up[w].pc = "read", !.up[w].mapping = file_map]
    /\ UNCHANGED << dbVars, httpVars, fsVars, available, gw >>

\* save_file_mapping(): mapping[original_name] = {...}; open(path, "w")
\* truncates the document
UpOpenMapping(w) ==
    /\ fn.up[w].pc = "read"
    /\ fn' = [fn EXCEPT !.up[w].pc = "open",
                        !.up[w].mapping = Put(@, fn.up[w].original_name,
                                              fn.up[w].unique_name)]
    /\ file_map' = <<>>
    /\ UNCHANGED << dbVars, httpVars, uploads, cache, ft, available, gw >>

\* save_file_mapping(): json.dump(mapping, f)
UpDumpMapping(w) ==
    /\ fn.up[w].pc = "open"
    /\ fn' = [fn EXCEPT !.up[w].pc = "mapped"]
    /\ file_map' = fn.up[w].mapping
    /\ UNCHANGED << dbVars, httpVars, uploads, cache, ft, available, gw >>

\* upload_file() after save_file_mapping(): ext, _get_file_text, response
UpRespond(w) ==
    /\ fn.up[w].pc = "mapped"
    /\ IF ~HasDot(fn.up[w].original_name)
       THEN /\ fn' = [fn EXCEPT !.up[w].pc = "done", !.up[w].status = 500]
            /\ UNCHANGED cache
       ELSE /\ cache' = GetFileText(fn.up[w].unique_name, uploads, cache,
                                    QuietEnv).cache
            /\ fn' = [fn EXCEPT
                         !.up[w].pc = "done", !.up[w].status = 200,
                         !.completed = Append(@,
                             [original_name |-> fn.up[w].original_name,
                              unique_name |-> fn.up[w].unique_name])]
    /\ UNCHANGED << dbVars, httpVars, uploads, file_map, ft, available, gw >>

NextUp ==
    \E w \in Workers :
        \/ \E file \in UploadFiles : UpBegin(w, file)
        \/ UpReadMapping(w)
        \/ UpOpenMapping(w)
        \/ UpDumpMapping(w)
        \/ UpRespond(w)

SpecUp ==
    InitUp /\ [][NextUp]_vars

-----------------------------------------------------------------------------
(* Properties of /chat, /stream_chat and the conversation store, under Spec *)

\* Ghosts: the rows a request inserted
RowsOf(rid) ==
    {r \in conversations : r.req = rid}

SessionsOf(rid) ==
    {x \in chat_sessions : x.req = rid}

\* The request of worker w is answered
Answered(w) ==
    wk[w].pc = "done"

\* ... and it was a logged-in request with a message that is not blank,
\* none of whose database writes raised
Completed(w) ==
    /\ Answered(w)
    /\ wk[w].uid \in Users
    /\ wk[w].message # <<>>
    /\ ~wk[w].dberr

\* Every session id a row or a request can carry
SessionIds ==
    {UnknownSession, LegacySession} \cup {UuidPool[i] : i \in 1..Len(UuidPool)}

\* C1: an authenticated POST /chat with a message (not blank, line 249) and
\* no session_id, whose database writes succeed, is answered 200 with a
\* session_id and a non-empty response, and has added exactly one
\* chat_sessions row and exactly two conversations rows, whatever the model
\* did (answered, answered nothing, failed every attempt, not available).
C1_ChatEndToEnd ==
    \A w \in Workers :
        (Completed(w) /\ wk[w].op = "chat" /\ wk[w].req_sid = NoSession) =>
            /\ wk[w].status = 200
            /\ wk[w].body_session_id # NoSession
            /\ wk[w].body_response # <<>>
            /\ Cardinality(SessionsOf(wk[w].rid)) = 1
            /\ Cardinality(RowsOf(wk[w].rid)) = 2

\* C1 witness: such a request answered after every model attempt failed
C1_Witness ==
    \E w \in Workers :
        /\ Completed(w) /\ wk[w].op = "chat" /\ wk[w].req_sid = NoSession
        /\ wk[w].body_response = ErrorText(RetryErrorText)
        /\ Cardinality(RowsOf(wk[w].rid)) = 2

\* C2: a completed /chat or /stream_chat turn has inserted exactly two rows
\* for its session: the user's (composed) message and the assistant's reply,
\* the user row with the smaller id.
C2_TurnPair ==
    \A w \in Workers :
        Completed(w) =>
            \E u, a \in RowsOf(wk[w].rid) :
                /\ RowsOf(wk[w].rid) = {u, a}
                /\ u.id < a.id
                /\ u.role = "user" /\ u.content = wk[w].user_input
                /\ a.role = "assistant" /\ a.content = wk[w].bot_response
                /\ u.session_id = wk[w].session_id
                /\ a.session_id = wk[w].session_id
                /\ u.user_id = wk[w].uid /\ a.user_id = wk[w].uid
                /\ \A i \in 1..Len(wk[w].message) :
                       u.content[Len(u.content) - Len(wk[w].message) + i]
                           = wk[w].message[i]

\* C2 witness: a completed /stream_chat turn in a session that had turns
C2_Witness ==
    \E w \in Workers :
        /\ Completed(w) /\ wk[w].op = "stream_chat"
        /\ wk[w].history # <<>>
        /\ Cardinality(RowsOf(wk[w].rid)) = 2

\* What save_message was called with for (user_id, session_id), in call order
SavedFor(user_id, session_id) ==
    LET mine == SelectSeq(savedLog, LAMBDA e : /\ e.user_id = user_id
                                               /\ e.session_id = session_id)
    IN  [i \in 1..Len(mine) |-> [role |-> mine[i].role, content |-> mine[i].content]]

IsPrefix(s, t) ==
    /\ Len(s) <= Len(t)
    /\ SubSeq(t, 1, Len(s)) = s

LoadIsSaved ==
    \A u \in Users, x \in SessionIds :
        load_session_messages(u, x) = SavedFor(u, x)

\* (a user and session with no row yet load <<>>, a prefix of every load)
LoadGrows ==
    \A r \in conversations :
        IsPrefix(load_session_messages(r.user_id, r.session_id),
                 SelectSession(conversations', r.user_id, r.session_id))

\* C3: load_session_messages(user, session) is exactly what save_message
\* was called with for that user and session, in call order, and every
\* load is a prefix of every later load.
C3_LoadRoundTrip ==
    /\ []LoadIsSaved
    /\ [][LoadGrows]_vars

\* C3 witness: a session loads four turns: two of an earlier run and a turn
\* pair added since
C3_Witness ==
    \E u \in Users, x \in SessionIds :
        /\ Len(load_session_messages(u, x)) >= 4
        /\ \E v \in Users \ {u} : Len(load_session_messages(v, x)) >= 2

\* C4: every conversations row with a session_id references a chat_sessions
\* row of the same user.
C4_RowsReferenceOwnSession ==
    \A r \in conversations :
        r.session_id # NoSession =>
            \E x \in chat_sessions :
                x.id = r.session_id /\ x.user_id = r.user_id

\* C5: when the history /chat loaded holds a file turn, the message sent on
\* and persisted is a "--- File: <name> ---" block followed by the message.
C5_FileBlockPrepended ==
    \A w \in Workers :
        (/\ Completed(w) /\ wk[w].op = "chat"
         /\ \E i \in 1..Len(wk[w].history) : wk[w].history[i].role = "file") =>
            /\ StartsWith(wk[w].user_input, FileHead)
            /\ Len(wk[w].user_input) > Len(FileHead) + Len(wk[w].message)
            /\ \E r \in RowsOf(wk[w].rid) :
                   r.role = "user" /\ StartsWith(r.content, FileHead)

\* C6: /chat with a message and no session_id creates one session, owned by
\* the requesting user and titled with the first 60 characters of the
\* stripped message, and the two rows of the turn carry its id.
C6_NewSessionTitle ==
    \A w \in Workers :
        (Completed(w) /\ wk[w].op = "chat" /\ wk[w].req_sid = NoSession) =>
            \E x \in chat_sessions :
                /\ SessionsOf(wk[w].rid) = {x}
                /\ x.user_id = wk[w].uid
                /\ x.id = wk[w].body_session_id
                /\ x.id \notin {NoSession, UnknownSession, LegacySession}
                /\ wk[w].message[1] \notin Whitespace
                /\ Len(x.title) = (IF Len(wk[w].message) < 60
                                   THEN Len(wk[w].message) ELSE 60)
                /\ \A i \in 1..Len(x.title) : x.title[i] = wk[w].message[i]
                /\ Cardinality(RowsOf(wk[w].rid)) = 2
                /\ \A r \in RowsOf(wk[w].rid) : r.session_id = x.id

\* C6 witness: a session whose title is shorter than the message it was cut from
C6_Witness ==
    \E w \in Workers :
        /\ Completed(w) /\ wk[w].op = "chat" /\ wk[w].req_sid = NoSession
        /\ \E x \in SessionsOf(wk[w].rid) :
               Len(x.title) = 60 /\ Len(wk[w].message) > 60
-----------------------------------------------------------------------------
(* Properties of _get_file_text and its cache, under SpecFile *)

\* The step is a _get_file_text call for the stored name f
CallFor(f) ==
    /\ ft'.n = ft.n + 1
    /\ ft'.last.k = ft'.n
    /\ ft'.last.filename = f

\* C7: once _get_file_text has succeeded for a stored filename, every later
\* call for that filename returns the identical text and invokes no
\* extractor, whatever has happened to the uploaded file.
C7_CachedTextIdentical ==
    [][\A f \in DOMAIN ft.ok :
           CallFor(f) => /\ ft'.last.text = ft.ok[f]
                         /\ ~ft'.last.invoked]_vars

\* The extractor of the latest _get_file_text call raised or gave a sentinel
ExtractionFailed ==
    /\ ft.last.k > 0
    /\ ft.last.invoked
    /\ ft.last.crash \/ StartsWith(ft.last.raw, ErrorMark)

-----------------------------------------------------------------------------
(* Properties of the gateway, under SpecGen *)

\* The operation has returned after a model call that failed: every
\* attempt of its last _generate raised
ReturnedAfterFailure ==
    /\ gw.pc = "done" /\ gw.returned
    /\ gw.calls # <<>> /\ gw.calls[Len(gw.calls)]

\* The operation has returned after a model output _extract_text found
\* nothing in
ReturnedAfterEmptyOutput ==
    gw.pc = "done" /\ gw.returned /\ gw.blank

\* The operation has returned without calling the unconfigured model
ReturnedUnconfigured ==
    gw.pc = "done" /\ ~available

\* A string that starts with the marker
MarkedString(result, mark) ==
    result.kind = "str" /\ StartsWith(result.value, mark)

\* A list of one string that starts with the marker
MarkedList(result, mark) ==
    /\ result.kind = "list"
    /\ Len(result.value) = 1
    /\ StartsWith(result.value[1], mark)

\* C9 as stated: every gateway operation returns a value; unconfigured
\* gives a "(fallback)" string (the empty list for keywords), a failing
\* model call gives an "(error)"-prefixed string, and an empty model
\* output gives a non-empty "(info)" marker string.
C9_DegradedString ==
    /\ gw.pc = "done" => gw.result.kind \in {"str", "list"}
    /\ ReturnedUnconfigured =>
           IF gw.op = "keywords" THEN gw.result = ListResult(<<>>)
           ELSE MarkedString(gw.result, FallbackMark)
    /\ ReturnedAfterFailure => MarkedString(gw.result, ErrorMark)
    /\ ReturnedAfterEmptyOutput => MarkedString(gw.result, InfoMark)

\* C9 amended: as stated for chat_response, summarize and explain_pdf_text;
\* keywords returns a list in every case: the empty list when unconfigured,
\* and a list of the one marker string after a failing call or an empty
\* output.
C9_DegradedValue ==
    /\ gw.pc = "done" =>
           gw.result.kind = (IF gw.op = "keywords" THEN "list" ELSE "str")
    /\ ReturnedUnconfigured =>
           IF gw.op = "keywords" THEN gw.result = ListResult(<<>>)
           ELSE MarkedString(gw.result, FallbackMark)
    /\ ReturnedAfterFailure =>
           IF gw.op = "keywords" THEN MarkedList(gw.result, ErrorMark)
           ELSE MarkedString(gw.result, ErrorMark)
    /\ ReturnedAfterEmptyOutput =>
           IF gw.op = "keywords" THEN MarkedList(gw.result, InfoMark)
           ELSE MarkedString(gw.result, InfoMark)

\* C9 witness: keywords has returned after all three attempts raised,
\* asked for no keyword at all.
C9_Witness ==
    /\ ReturnedAfterFailure
    /\ gw.op = "keywords" /\ gw.top_k = 0
    /\ Len(gw.calls) = MaxAttempts

\* C10: within one _generate call generate_content is invoked at most 3
\* times, each attempt but the first follows an attempt that raised, and
\* after the third failure _generate returns an "(error)" string.
C10_AtMostThreeAttempts ==
    /\ Len(gw.calls) <= 3
    /\ \A i \in 1..(Len(gw.calls) - 1) : gw.calls[i]
    /\ (Len(gw.calls) = 3 /\ gw.calls[3]) =>
           /\ gw.returned
           /\ StartsWith(gw.ret, ErrorMark)

\* C10 witness: a _generate call has returned after three raising attempts,
\* inside summarize.
C10_Witness ==
    /\ gw.calls = <<TRUE, TRUE, TRUE>>
    /\ gw.returned
    /\ gw.op = "summarize"

-----------------------------------------------------------------------------
(* Properties of _chunk_text, under SpecChunk *)

\* The chunks, in order, are what the text holds, up to whitespace before,
\* between and after them
RECURSIVE Covers(_, _)
Covers(text, chunks) ==
    IF chunks = <<>> THEN IsBlank(text)
    ELSE LET rest == LStripChars(text, Whitespace)
         IN  /\ StartsWith(rest, chunks[1])
             /\ Covers(SubSeq(rest, Len(chunks[1]) + 1, Len(rest)), Tail(chunks))

\* _chunk_text has been applied to a text longer than max_chars
ChunkedLong ==
    /\ fn.done
    /\ fn.name \in {"model_wrapper._chunk_text", "utils._chunk_text"}
    /\ Len(fn.text) > fn.n

\* C11: for a text longer than max_chars, both copies of _chunk_text end,
\* give no chunk longer than max_chars, and the chunks in order are
\* contiguous slices of the stripped text that cover it, up to the
\* whitespace stripped at the chunk edges.
C11_ChunksCoverText ==
    ChunkedLong =>
        /\ Len(fn.out) <= Len(fn.text)
        /\ \A i \in 1..Len(fn.out) : Len(fn.out[i]) <= fn.n
        /\ Covers(fn.text, fn.out)

\* C11 witness: a text of two words cut just after the newline between
\* them, before the window of max_chars characters is full.
C11_Witness ==
    /\ ChunkedLong
    /\ Len(fn.out) = 2
    /\ Len(fn.out[1]) + 1 + Len(fn.out[2]) = Len(fn.text)
    /\ Len(fn.out[1]) + 1 < fn.n
    /\ fn.text[Len(fn.out[1]) + 1] = "\n"
    /\ fn.out[2] # <<>>

-----------------------------------------------------------------------------
(* Properties of keywords, under SpecKeywords *)

\* C12: when the raw output is not a JSON list, keywords returns at most
\* top_k strings, each non-empty and none twice, for every top_k >= 0.
C12_FallbackAtMostTopK ==
    (fn.done /\ fn.name = "keywords" /\ ~JsonList(fn.text).list) =>
        /\ Len(fn.out) <= fn.n
        /\ \A i \in 1..Len(fn.out) : fn.out[i] # <<>>
        /\ \A i, j \in 1..Len(fn.out) : i # j => fn.out[i] # fn.out[j]

-----------------------------------------------------------------------------
(* Properties of the /stream_chat generator, under SpecStream *)

\* The texts of a list, one after the other
RECURSIVE Concat(_)
Concat(texts) ==
    IF texts = <<>> THEN <<>> ELSE texts[1] \o Concat(Tail(texts))

\* The sentence delimiters
Delimiters ==
    {".", "?", "!", "\n"}

\* gen() has run to its end
Streamed ==
    fn.done /\ fn.name = "gen"

\* C13: the payloads of the events, concatenated and stripped, are the
\* stripped full response, no character lost or duplicated, and no fragment
\* is longer than 120 characters plus one trailing sentence.
C13_FragmentsRebuildResponse ==
    Streamed =>
        /\ Strip(Concat([i \in 1..Len(fn.out) |-> Payload(fn.out[i])]))
               = Strip(fn.text)
        /\ \A i \in 1..Len(fn.out) :
               \A k \in (StreamLimit + 1)..(Len(Payload(fn.out[i])) - 1) :
                   Payload(fn.out[i])[k] \notin Delimiters

\* C14: a fragment ends only just after a sentence delimiter or at the end
\* of the response; the buffer is flushed exactly when it is longer than
\* 120 characters after a segment was appended, then restarts empty; a
\* non-empty remainder is flushed once at the end.
C14_FlushAtSentenceEnds ==
    /\ Len(fn.buf) <= StreamLimit
    /\ \A i \in 1..Len(fn.out) :
           LET end == Len(Concat(SubSeq(fn.out, 1, i)))
           IN  /\ fn.out[i] # <<>>
               /\ end = Len(fn.text) \/ fn.text[end] \in Delimiters
               /\ (i < Len(fn.out) \/ ~fn.done) => Len(fn.out[i]) > StreamLimit
    /\ Streamed => Concat(fn.out) = fn.text

-----------------------------------------------------------------------------
(* Properties of rejected /chat and /stream_chat requests, under Spec *)

\* The request of worker w came without a login, or with a login and a
\* missing or blank message
Rejected(w) ==
    /\ wk[w].rid # 0
    /\ wk[w].uid = NoUser \/ wk[w].message = <<>>

\* C15: POST /chat or /stream_chat without a logged-in user is answered 401,
\* and with a logged-in user but a missing or blank message by a response
\* that begins with "(error)"; in both cases the model is not called and no
\* chat_sessions row and no conversations row is created.
C15_RejectedRequestLeavesNothing ==
    \A w \in Workers :
        Rejected(w) =>
            /\ wk[w].pc = "done"
            /\ wk[w].uid = NoUser => wk[w].status = 401
            /\ wk[w].uid # NoUser =>
                   /\ wk[w].status = 200
                   /\ StartsWith(wk[w].body_response, ErrorMark)
            /\ wk[w].bot_response = <<>>
            /\ \A x \in chat_sessions : x.req # wk[w].rid
            /\ \A r \in conversations : r.req # wk[w].rid

\* C15: a logged-in user's /stream_chat request with a blank message was
\* answered after an earlier request had stored its rows
C15_Witness ==
    /\ Rejected(MainWorker)
    /\ wk[MainWorker].op = "stream_chat"
    /\ wk[MainWorker].uid # NoUser
    /\ wk[MainWorker].pc = "done"
    /\ wk[MainWorker].rid = 2
    /\ \E r \in conversations : r.req = 1

-----------------------------------------------------------------------------
(* Properties of refused uploads, under SpecFile *)

\* The allowed upload extensions
ListedExtensions ==
    { <<"p", "d", "f">>, <<"t", "x", "t">>, <<"d", "o", "c", "x">>,
      <<"c", "s", "v">>, <<"x", "l", "s", "x">>, <<"p", "n", "g">>,
      <<"j", "p", "g">>, <<"j", "p", "e", "g">>, <<"g", "i", "f">>,
      <<"p", "y">>, <<"j", "s">>, <<"h", "t", "m", "l">>,
      <<"j", "s", "o", "n">>, <<"m", "d">>, <<"w", "e", "b", "m">> }

\* No file, an empty filename, a filename without an extension, or an
\* extension outside the allowed set, compared case-insensitively
NotAcceptable(file) ==
    \/ ~file.present
    \/ file.filename = <<>>
    \/ ~HasDot(file.filename)
    \/ Lower(AfterLastDot(file.filename)) \notin ListedExtensions

\* The requests the claim is about
UnacceptableFiles ==
    {file \in UploadFiles : NotAcceptable(file)}

\* The step is POST /upload with this file, with libraries that give no text
UploadOf(file) ==
    Upload(file, QuietEnv)

\* C16: POST /upload with no file, an empty filename, a filename without an
\* extension or an extension outside the allowed set is answered with an
\* error field and stores nothing: no file in the upload folder, no
\* file-mapping entry and no cache file.
C16_RefusedUploadStoresNothing ==
    [][\A file \in UnacceptableFiles :
           (ft'.n # ft.n /\ UploadOf(file)) =>
               /\ ft'.resp.error
               /\ ft'.resp.file_id = <<>>
               /\ UNCHANGED << uploads, file_map, cache >>]_vars

\* C16: an upload was refused after an earlier one had stored its file, its
\* mapping entry and its cache file
C16_Witness ==
    /\ ft.n = 2
    /\ ft.resp = UploadRefused
    /\ uploads # {}
    /\ DOMAIN file_map # {}
    /\ DOMAIN cache # {}

-----------------------------------------------------------------------------
(* Properties of /ping, under SpecPing *)

-----------------------------------------------------------------------------
(* Properties of /stream_chat without a session_id, under Spec *)

\* C18: an authenticated POST /stream_chat with a message (not blank) and no
\* session_id creates a new session of the user, titled with the first 60
\* characters of the message, and stores the two rows of the turn under
\* that session's id, as /chat does.
C18_StreamCreatesSession ==
    \A w \in Workers :
        (Completed(w) /\ wk[w].op = "stream_chat" /\ wk[w].req_sid = NoSession) =>
            \E x \in chat_sessions :
                /\ SessionsOf(wk[w].rid) = {x}
                /\ x.user_id = wk[w].uid
                /\ x.title = Take(wk[w].message, TitleLen)
                /\ Cardinality(RowsOf(wk[w].rid)) = 2
                /\ \A r \in RowsOf(wk[w].rid) : r.session_id = x.id

-----------------------------------------------------------------------------
(* Properties of the file block of /chat, under SpecCompose *)

\* How many times p occurs in s
Occurrences(s, p) ==
    Cardinality({i \in 1..(Len(s) - Len(p) + 1) : SubSeq(s, i, i + Len(p) - 1) = p})

\* The position of the last turn of the history with role "file", 0 if none
LastFileTurn(history) ==
    LET at == {i \in 1..Len(history) : history[i].role = "file"}
    IN  IF at = {} THEN 0 ELSE CHOOSE i \in at : \A j \in at : j <= i

\* The block of a file and its text
FileBlock(original_name, text) ==
    FileHead \o original_name \o FileMid \o text \o FileTail

\* C19: at most one file block is prepended to a /chat message, and it can
\* only come from the latest file-role turn of the history: if that turn has
\* no file id or yields no text, no older file turn is used and the message
\* is sent unchanged.
C19_OnlyLatestFileTurn ==
    fn.name = "compose" =>
        LET k == LastFileTurn(fn.history)
        IN  /\ Occurrences(fn.composed, FileHead) <= 1
            /\ IF k = 0 \/ "file_id" \notin DOMAIN fn.history[k]
               THEN fn.composed = fn.text
               ELSE IF fn.history[k].file_id \notin DOMAIN cache
               THEN fn.composed = fn.text
               ELSE fn.composed =
                        FileBlock(fn.history[k].original_name,
                                  cache[fn.history[k].file_id]) \o fn.text

\* C19: the latest file turn yielded no text while an older file turn's text
\* was cached, and the message went out unchanged
C19_Witness ==
    /\ fn.name = "compose"
    /\ Len(fn.history) = 2
    /\ fn.history[1].role = "file" /\ fn.history[2].role = "file"
    /\ "file_id" \in DOMAIN fn.history[1] /\ "file_id" \in DOMAIN fn.history[2]
    /\ fn.history[1].file_id \in DOMAIN cache
    /\ fn.history[2].file_id \in uploads \ DOMAIN cache
    /\ fn.composed = fn.text

-----------------------------------------------------------------------------
(* Properties of the OCR fallback, under SpecPdf *)

\* The direct extraction of the text layer gave no character that is not
\* whitespace
DirectBlank ==
    \/ fn.env.lib.raises
    \/ \A i \in 1..Len(fn.env.lib.text) : fn.env.lib.text[i] \in Whitespace

\* OCR gives no character that is not whitespace
OcrBlank ==
    \/ fn.env.ocr.raises
    \/ \A i \in 1..Len(fn.env.ocr.text) : fn.env.ocr.text[i] \in Whitespace

\* C20: extract_text_from_pdf runs OCR only after the direct extraction
\* produced no non-whitespace text and never when it produced text; when
\* both yield nothing it returns a string beginning with "(error)", so
\* /upload of such a PDF answers text_available = false and leaves no cache
\* file for it.
C20_OcrOnlyAfterBlankText ==
    /\ fn.calls > 0 => fn.name = "ocr" /\ DirectBlank
    /\ (fn.done /\ DirectBlank) => fn.calls = 1
    /\ (fn.done /\ ~DirectBlank) =>
           /\ fn.calls = 0
           /\ fn.out = Strip(fn.env.lib.text)
    /\ (fn.done /\ ft.n > 0) => ft.last.raw = fn.out
    /\ (fn.done /\ DirectBlank /\ OcrBlank) =>
           /\ StartsWith(fn.out, ErrorMark)
           /\ ft.n > 0 =>
                  /\ ft.resp.status = 200
                  /\ ft.resp.file_id \in uploads
                  /\ ~ft.resp.text_available
                  /\ cache = <<>>

\* C20: a PDF without a text layer, on which OCR found nothing either, was
\* uploaded
C20_Witness ==
    /\ fn.done /\ fn.calls = 1
    /\ ~fn.env.lib.raises /\ ~fn.env.ocr.raises
    /\ DirectBlank /\ OcrBlank
    /\ ft.n > 0
    /\ ~ft.resp.text_available

-----------------------------------------------------------------------------
(* Properties of the prompt of chat_response, under SpecPrompt *)

\* The line of a turn: its label, by its role, and its content
LineOf(turn) ==
    (IF turn.role = "assistant" THEN <<"A", "s", "s", "i", "s", "t", "a", "n", "t">>
     ELSE <<"U", "s", "e", "r">>) \o <<":", " ">> \o turn.content

\* How many of the latest turns the prompt holds
Kept(history) ==
    IF Len(history) > HistoryWindow THEN HistoryWindow ELSE Len(history)

\* C21: the prompt of chat_response is the fixed system line, then the last
\* 8 turns of the history in their order, each as a "User:" or "Assistant:"
\* line, then "User: <new message>" and a final "Assistant:" line; no turn
\* older than the last 8 appears in it.
C21_PromptLastEightTurns ==
    fn.name = "prompt" =>
        LET h == fn.history
            k == Kept(h)
        IN  /\ Len(fn.out) = k + 3
            /\ fn.out[1] = SystemLine
            /\ \A i \in 1..k : fn.out[i + 1] = LineOf(h[Len(h) - k + i])
            /\ fn.out[k + 2] = <<"U", "s", "e", "r", ":", " ">> \o fn.text
            /\ fn.out[k + 3] = <<"A", "s", "s", "i", "s", "t", "a", "n", "t", ":">>
            /\ \A j \in 1..(Len(h) - k) :
                   /\ \A i \in 1..Len(fn.out) : fn.out[i] # LineOf(h[j])
                   /\ Occurrences(fn.composed, <<"\n">> \o LineOf(h[j]) \o <<"\n">>) = 0
            /\ Occurrences(fn.composed, <<"\n">>) = k + 2

\* C21: a prompt was built from a history of more than 8 turns
C21_Witness ==
    /\ fn.name = "prompt"
    /\ Len(fn.history) = HistoryWindow + 2
    /\ Len(fn.out) = HistoryWindow + 3
    /\ fn.history[1].role = "assistant" /\ fn.history[3].role = "user"

-----------------------------------------------------------------------------
(* Properties of the cut of _chunk_text, under SpecChunk *)

\* The 0-based indexes, inside the window of n characters that follows the
\* first start characters of text, of its newlines and of its ". "
CutMarks(text, start, n) ==
    {i \in 0..(n - 1) :
        \/ text[start + i + 1] = "\n"
        \/ i + 1 <= n - 1 /\ text[start + i + 1] = "." /\ text[start + i + 2] = " "}

\* The 0-based end of the chunk that starts at start: just after the last
\* mark of its window when the chunk does not reach the end of the text and
\* that mark lies beyond half of max_chars, the whole window otherwise
CutEnd(text, start, max_chars) ==
    IF start + max_chars >= Len(text) THEN Len(text)
    ELSE LET marks == CutMarks(text, start, max_chars)
             last  == CHOOSE i \in marks : \A j \in marks : j <= i
         IN  IF marks # {} /\ 2 * last > max_chars
             THEN start + last + 1 ELSE start + max_chars

\* The chunks from the position start on
RECURSIVE CutChunks(_, _, _)
CutChunks(text, start, max_chars) ==
    IF start >= Len(text) THEN <<>>
    ELSE <<Strip(SubSeq(text, start + 1, CutEnd(text, start, max_chars)))>>
         \o CutChunks(text, CutEnd(text, start, max_chars), max_chars)

\* C22: in both copies of _chunk_text, which agree for every max_chars, a
\* chunk that does not reach the end of the text ends just after the last
\* newline or ". " of its window of max_chars characters only when that cut
\* index lies beyond half of max_chars; otherwise it is the whole window.
C22_CutBeyondHalf ==
    ChunkedLong =>
        /\ Len(Strip(fn.text)) > fn.n => fn.out = CutChunks(Strip(fn.text), 0, fn.n)
        /\ _chunk_text(fn.text, fn.n) = utils_chunk_text(fn.text, fn.n)

\* C22: the last newline of the first window lies at half of max_chars, not
\* beyond it, and the first chunk is the whole window
C22_Witness ==
    /\ ChunkedLong
    /\ fn.n = 4
    /\ Len(fn.text) > 4
    /\ fn.text[1] = "a" /\ fn.text[2] = "a" /\ fn.text[3] = "\n" /\ fn.text[4] = "a"
    /\ fn.text[5] = "a"
    /\ fn.out[1] = <<"a", "a", "\n", "a">>

-----------------------------------------------------------------------------
(* Properties of a failed session insert, under Spec *)

\* The /chat request of worker w drew a session id and its INSERT raised
InsertFailed(w) ==
    /\ Answered(w)
    /\ wk[w].op = "chat"
    /\ wk[w].dberr
    /\ wk[w].req_sid = NoSession
    /\ SessionsOf(wk[w].rid) = {}

\* C23: if inserting the new chat_sessions row fails during /chat, the
\* handler answers with a response that begins with "(error)", does not
\* call the model and stores no conversations row.
C23_FailedInsertStopsRequest ==
    \A w \in Workers :
        InsertFailed(w) =>
            /\ wk[w].status = 200
            /\ StartsWith(wk[w].body_response, ErrorMark)
            /\ wk[w].bot_response = <<>>
            /\ RowsOf(wk[w].rid) = {}

\* C23: the insert of the second request failed after the first request had
\* stored its turn
C23_Witness ==
    /\ InsertFailed(MainWorker)
    /\ wk[MainWorker].rid = 2
    /\ RowsOf(1) # {}

-----------------------------------------------------------------------------
(* Properties of the reads of one user, under SpecApi *)

\* The conversations rows of user A
OwnRows(A) ==
    {r \in conversations : r.user_id = A}

\* The list holds one element for each row of the set, each the role and
\* content of one of them
ListsRows(list, rows) ==
    /\ Len(list) = Cardinality(rows)
    /\ \A i \in 1..Len(list) :
           \E r \in rows : list[i] = [role |-> r.role, content |-> r.content]

\* The list holds one element for each session of the set
ListsSessions(list, sessions) ==
    /\ Len(list) = Cardinality(sessions)
    /\ \A i \in 1..Len(list) :
           \E x \in sessions : list[i] = [id |-> x.id, title |-> x.title]

\* C24: /api/session/<id>, /api/sessions and /api/history answered for user
\* A hold only rows whose user_id is A, and the history of a /chat or
\* /stream_chat by A with another user's session_id holds none of that
\* user's messages.
C24_OnlyOwnRows ==
    /\ fn.name = "api_session" =>
           ListsRows(fn.body, {r \in OwnRows(fn.uid) : r.session_id = fn.sid})
    /\ fn.name = "api_history" => ListsRows(fn.body, OwnRows(fn.uid))
    /\ fn.name = "api_sessions" =>
           ListsSessions(fn.body, {x \in chat_sessions : x.user_id = fn.uid})
    /\ \A w \in Workers :
           wk[w].pc \in {"new_session", "model"} =>
               ListsRows(wk[w].history,
                         {r \in OwnRows(wk[w].uid) :
                             /\ wk[w].req_sid # NoSession
                             /\ r.session_id = wk[w].req_sid})

\* C24: /api/session/<id> was answered for u1 with the two turns of its
\* session after u2 had stored a turn under that session's id
C24_Witness ==
    /\ fn.name = "api_session"
    /\ fn.uid = "u1"
    /\ fn.sid = LegacySession
    /\ Len(fn.body) = 2
    /\ \E r \in conversations : r.user_id = "u2" /\ r.session_id = LegacySession

-----------------------------------------------------------------------------
(* Properties of concurrent turns, under SpecConc *)

\* The row stored next after row u among those load_session_messages
\* returns together with it
NextInSession(u) ==
    LET later == {r \in conversations :
                     /\ r.user_id = u.user_id
                     /\ r.session_id = u.session_id
                     /\ r.id > u.id}
    IN  CHOOSE r \in later : \A x \in later : r.id <= x.id

\* Every user turn of the history is followed by an assistant turn
CompletePairs(history) ==
    \A i \in 1..Len(history) :
        history[i].role = "user" =>
            i < Len(history) /\ history[i + 1].role = "assistant"

\* C25: when two /chat or /stream_chat requests for the same session are
\* handled at once by different workers, the stored order of the session
\* has each request's user row immediately followed by the assistant row of
\* the same request, and the history of each request holds complete pairs
\* only.
C25_TurnPairsNotInterleaved ==
    /\ \A u \in conversations :
           (u.role = "user" /\ Cardinality(RowsOf(u.req)) = 2) =>
               /\ NextInSession(u).req = u.req
               /\ NextInSession(u).role = "assistant"
    /\ \A w \in Workers :
           wk[w].pc \notin {"idle", "done"} => CompletePairs(wk[w].history)

-----------------------------------------------------------------------------
(* Properties of concurrent uploads, under SpecUp *)

\* No worker is inside upload_file()
UploadsCompleted ==
    \A w \in Workers : fn.up[w].pc \in {"idle", "done"}

\* The last completed upload of the name that upload i was stored under
LastCompleted(i) ==
    \A j \in (i + 1)..Len(fn.completed) :
        fn.completed[j].original_name # fn.completed[i].original_name

\* C26: after any set of /upload requests has completed, requests handled
\* at once by different workers included, file_map holds an entry for
\* every original filename that was uploaded, and the unique_name of the
\* entry is that of the last completed upload of the name.
C26_NoMappingEntryLost ==
    UploadsCompleted =>
        \A i \in 1..Len(fn.completed) :
            /\ fn.completed[i].original_name \in DOMAIN file_map
            /\ LastCompleted(i) =>
                   file_map[fn.completed[i].original_name]
                       = fn.completed[i].unique_name

=============================================================================
